---------------------------- MODULE Spec2Model ----------------------------
(***************************************************************************)
(* TrendScope backend: the sentiment aggregation core.                     *)
(*                                                                         *)
(*   sentiment/analyzer.py   calculate_polarity_score, aggregate_sentiment *)
(*   main.py                 process_region and the region cache           *)
(*   database.py             the snapshot / headline store, the trend      *)
(*                           analyzer and the keyword extractor            *)
(*                                                                         *)
(* Number encoding.  The code computes with Python floats; the model keeps *)
(* every quantity as an integer in a fixed unit:                           *)
(*   headline score (-1 .. 1)        hundredths   0.1   -> 10              *)
(*   polarity score (0 .. 100)       tenths       50.0  -> 500             *)
(*   normalized score (-1 .. 1)      1/500        (p - 50)/50 -> p10 - 500 *)
(*   trend change                    see score_sub below                   *)
(***************************************************************************)
EXTENDS Integers, Sequences, FiniteSets, TLC

VARIABLES
    pc,                 \* which call of the current specification has run
    scores,             \* aggregate_sentiment: the argument
    agg,                \* aggregate_sentiment: the returned tuple
    bull_count,         \* calculate_polarity_score: first argument
    bear_count,         \* calculate_polarity_score: second argument
    polarity_score,     \* calculate_polarity_score: the returned value
    model_loaded,       \* analyzer.model is not None
    feed,               \* what SCRAPERS[r].fetch_headlines() returns, per region
    cache,              \* main.cache, the TTLCache of region aggregates
    sentiment_history,  \* table sentiment_history, rows in rowid order
    headlines_history,  \* table headlines_history, rows in rowid order
    now,                \* the clock, in seconds
    request,            \* the arguments of the call in progress
    response,           \* what the last call returned or raised
    trend_info,         \* what get_sentiment_change returned
    keyword_rows,       \* get_top_keywords: the rows as the cursor delivered them
    top_keywords,       \* what get_top_keywords returned
    insights,           \* what generate_insights returned
    db_queries,         \* the store queries the last generate_insights call made
    earlier_call,       \* the generate_insights call before the last one
    thread,             \* per thread of the service: the handler it runs, where
                        \* it is in it, its local variables and its last result
    put_log,            \* per cache key: the value last assigned and when
    handled             \* how many requests the service has accepted

agg_vars == <<scores, agg, bull_count, bear_count, polarity_score>>
svc_vars == <<model_loaded, feed, cache, sentiment_history, headlines_history,
              now, request, response>>
qry_vars == <<trend_info, keyword_rows, top_keywords>>
ins_vars == <<insights, db_queries, earlier_call>>
thr_vars == <<thread, put_log, handled>>
vars == <<pc, agg_vars, svc_vars, qry_vars, ins_vars, thr_vars>>

\* Python's None, and the value of a result no call has produced yet
None == [none |-> TRUE]

-----------------------------------------------------------------------------
(* Bounds of the model *)

\* longest score sequence drawn with every score value at every position
MaxScores == 3
\* longest run of equal scores in a run-shaped score sequence
MaxRun == 11
\* most neutral scores appended to a run-shaped score sequence
MaxNeutralRun == 1
\* longest batch of raw headlines drawn with every headline at every position
MaxBatch == 2
\* longest run of equal headlines in a run-shaped batch
MaxBatchRun == 6
\* most snapshot rows saved before a trend query
MaxSnapshots == 3
\* hours the clock advances
MaxHours == 2
\* most headline rows saved before a keyword query
MaxRows == 2
\* most saves and hours before and between calls of generate_insights
MaxEvents == 4
\* most requests the service accepts and steps its clock takes
MaxRequests == 4
\* the regions one background collection visits, of the seven
MaxCollected == 1

-----------------------------------------------------------------------------
(* Python strings.  A str is a sequence of one-character strings. *)

UpperCase == <<"A", "B", "C", "D", "E", "F", "G", "H", "I", "J", "K", "L", "M",
               "N", "O", "P", "Q", "R", "S", "T", "U", "V", "W", "X", "Y", "Z">>
LowerCase == <<"a", "b", "c", "d", "e", "f", "g", "h", "i", "j", "k", "l", "m",
               "n", "o", "p", "q", "r", "s", "t", "u", "v", "w", "x", "y", "z">>
Digits    == <<"0", "1", "2", "3", "4", "5", "6", "7", "8", "9">>

Range(f) == {f[i] : i \in DOMAIN f}

UpperSet == Range(UpperCase)
WordChars == Range(UpperCase) \cup Range(LowerCase) \cup Range(Digits) \cup {"_"}

\* str.lower() on one character
LowerMap == [c \in UpperSet |->
                LowerCase[CHOOSE i \in DOMAIN UpperCase : UpperCase[i] = c]]

LowerChar(c) == IF c \in UpperSet THEN LowerMap[c] ELSE c

\* str.lower()
lower(text) == [i \in DOMAIN text |-> LowerChar(text[i])]

\* str.upper()
LowerSet == Range(LowerCase)
UpperMap == [c \in LowerSet |->
                UpperCase[CHOOSE i \in DOMAIN LowerCase : LowerCase[i] = c]]
UpperChar(c) == IF c \in LowerSet THEN UpperMap[c] ELSE c
upper(text) == [i \in DOMAIN text |-> UpperChar(text[i])]

\* str.title(): a letter that follows a letter is lowercased, any other
\* letter is uppercased
IsCased(c) == c \in UpperSet \cup LowerSet
str_title(text) ==
    [i \in DOMAIN text |->
        IF i > 1 /\ IsCased(text[i - 1]) THEN LowerChar(text[i])
        ELSE UpperChar(text[i])]

\* str(n) for an integer n >= 0
RECURSIVE str_nat(_)
str_nat(n) ==
    IF n < 10 THEN <<Digits[n + 1]>>
    ELSE Append(str_nat(n \div 10), Digits[(n % 10) + 1])

\* format(x, ".1f") and format(x, "+.1f") for x given in tenths
Abs(x) == IF x < 0 THEN -x ELSE x
format_1f(x) ==
    (IF x < 0 THEN <<"-">> ELSE <<>>)
        \o str_nat(Abs(x) \div 10) \o <<".">> \o str_nat(Abs(x) % 10)
format_plus_1f(x) ==
    (IF x < 0 THEN <<"-">> ELSE <<"+">>)
        \o str_nat(Abs(x) \div 10) \o <<".">> \o str_nat(Abs(x) % 10)

\* str.isspace() on one character
IsSpace(c) == c \in {" ", "\t", "\n", "\r"}

\* the regular expression class \w
IsWordChar(c) == c \in WordChars

\* str.lstrip() and str.strip()
RECURSIVE lstrip(_)
lstrip(text) ==
    IF text # <<>> /\ IsSpace(Head(text)) THEN lstrip(Tail(text)) ELSE text

RECURSIVE strip(_)
strip(text) ==
    IF text # <<>> /\ IsSpace(text[Len(text)])
    THEN strip(SubSeq(text, 1, Len(text) - 1))
    ELSE lstrip(text)

\* str.split(): the maximal runs of non-whitespace characters, in order.
\* word is the run being read, out the words already closed.
RECURSIVE split_from(_, _, _)
split_from(text, word, out) ==
    IF text = <<>>
    THEN IF word = <<>> THEN out ELSE Append(out, word)
    ELSE IF IsSpace(Head(text))
         THEN split_from(Tail(text), <<>>,
                         IF word = <<>> THEN out ELSE Append(out, word))
         ELSE split_from(Tail(text), Append(word, Head(text)), out)

split(text) == split_from(text, <<>>, <<>>)

-----------------------------------------------------------------------------
(* sentiment/analyzer.py *)

\* SentimentLabel (models.py)
POSITIVE == "positive"
NEUTRAL  == "neutral"
NEGATIVE == "negative"

\* the module's exposed thresholds, in hundredths
BULL_THRESHOLD == 60
BEAR_THRESHOLD == 60

\* PolarityCounts()
PolarityCounts == [bull_count |-> 0, bear_count |-> 0, neutral_count |-> 0,
                   filtered_count |-> 0]

\* NOISE_KEYWORDS
NOISE_KEYWORDS == <<
    <<"o", "p", "i", "n", "i", "o", "n">>,
    <<"p", "o", "d", "c", "a", "s", "t">>,
    <<"g", "u", "i", "d", "e">>,
    <<"h", "o", "w", " ", "t", "o">>,
    <<"e", "x", "p", "l", "a", "i", "n", "e", "d">>,
    <<"p", "e", "r", "s", "o", "n", "a", "l", " ", "f", "i", "n", "a", "n", "c", "e">>,
    <<"t", "i", "p", "s">>,
    <<"e", "d", "i", "t", "o", "r", "i", "a", "l">>,
    <<"r", "e", "v", "i", "e", "w">>,
    <<"n", "e", "w", "s", "l", "e", "t", "t", "e", "r">>,
    <<"s", "u", "b", "s", "c", "r", "i", "b", "e">>,
    <<"w", "a", "t", "c", "h", " ", "l", "i", "v", "e">>,
    <<"l", "i", "v", "e", " ", "u", "p", "d", "a", "t", "e", "s">>,
    <<"c", "o", "m", "m", "e", "n", "t", "a", "r", "y">>,
    <<"c", "o", "l", "u", "m", "n">>,
    <<"q", "&", "a">>,
    <<"i", "n", "t", "e", "r", "v", "i", "e", "w">>
>>

\* the regular expression assertion \b between text[i] and text[i+1]
\* (i = 0: before the first character; i = Len(text): after the last)
WordBoundary(text, i) ==
    LET before == i >= 1 /\ IsWordChar(text[i])
        after  == i < Len(text) /\ IsWordChar(text[i + 1])
    IN  before # after

\* text[i+1 .. i+Len(k)] is k, letter case ignored
MatchesAt(text, i, k) ==
    /\ i + Len(k) <= Len(text)
    /\ \A j \in 1..Len(k) : LowerChar(text[i + j]) = k[j]

\* noise_pattern.search(text): \b(k1|k2|...)\b with re.IGNORECASE
noise_pattern_search(text) ==
    \E i \in 0..(Len(text) - 1) :
        /\ WordBoundary(text, i)
        /\ \E n \in DOMAIN NOISE_KEYWORDS :
              /\ MatchesAt(text, i, NOISE_KEYWORDS[n])
              /\ WordBoundary(text, i + Len(NOISE_KEYWORDS[n]))

\* is_noise(text)
is_noise(text) ==
    IF text = <<>> THEN TRUE ELSE noise_pattern_search(text)

\* analyze(text) -> (score, label).  verdict is what the ONNX model answers
\* for this text: pred is the arg-max class ("error" when tokenizing or
\* inference raises) and confidence its probability in hundredths.
analyze(loaded, text, verdict) ==
    IF text = <<>> \/ strip(text) = <<>>
    THEN [score |-> 0, label |-> NEUTRAL]
    ELSE IF ~loaded
    THEN [score |-> 0, label |-> NEUTRAL]
    ELSE IF verdict.pred = "error"
    THEN [score |-> 0, label |-> NEUTRAL]
    ELSE IF verdict.pred = POSITIVE
    THEN [score |-> verdict.confidence, label |-> POSITIVE]
    ELSE IF verdict.pred = NEGATIVE
    THEN [score |-> -verdict.confidence, label |-> NEGATIVE]
    ELSE [score |-> 0, label |-> NEUTRAL]

\* round(num/den, 0) as Python rounds a float that is exactly num/den:
\* to nearest, a tie to the even neighbour.  num >= 0, den > 0.
RoundHalfEven(num, den) ==
    LET q == num \div den
        r == num % den
    IN  IF 2 * r < den THEN q
        ELSE IF 2 * r > den THEN q + 1
        ELSE IF q % 2 = 0 THEN q ELSE q + 1

\* a plausible slip: neutral headlines enter the denominator's default, so
\* that no signal reads as 0 instead of 50
calculate_polarity_score_zero_default(bull, bear) ==
    LET total == bull + bear
    IN  IF total = 0 THEN 0 ELSE RoundHalfEven(bull * 1000, total)

\* a plausible slip: the ratio of the wrong bucket
calculate_polarity_score_bear_ratio(bull, bear) ==
    LET total == bull + bear
    IN  IF total = 0 THEN 500 ELSE RoundHalfEven(bear * 1000, total)

\* calculate_polarity_score(bull_count, bear_count), in tenths
calculate_polarity_score(bull, bear) ==
    LET total == bull + bear
    IN  IF total = 0 THEN 500 ELSE RoundHalfEven(bull * 1000, total)

\* a plausible slip: the else branch forgets to count
bucket_score_drop_neutral(counts, score) ==
    IF score > 10 THEN [counts EXCEPT !.bull_count = @ + 1]
    ELSE IF score < -10 THEN [counts EXCEPT !.bear_count = @ + 1]
    ELSE counts

\* one iteration of the loop of aggregate_sentiment
bucket_score(counts, score) ==
    IF score > 10 THEN [counts EXCEPT !.bull_count = @ + 1]
    ELSE IF score < -10 THEN [counts EXCEPT !.bear_count = @ + 1]
    ELSE [counts EXCEPT !.neutral_count = @ + 1]

\* the loop of aggregate_sentiment: for score in scores
RECURSIVE count_scores(_, _)
count_scores(counts, ss) ==
    IF ss = <<>> THEN counts
    ELSE count_scores(bucket_score(counts, Head(ss)), Tail(ss))

\* a plausible slip: the band closed on the wrong side
overall_label_inclusive(polarity) ==
    IF polarity >= 550 THEN POSITIVE
    ELSE IF polarity <= 450 THEN NEGATIVE
    ELSE NEUTRAL

\* the label chain of aggregate_sentiment
overall_label(polarity) ==
    IF polarity > 550 THEN POSITIVE
    ELSE IF polarity < 450 THEN NEGATIVE
    ELSE NEUTRAL

\* aggregate_sentiment(scores) -> (normalized, label, counts)
aggregate_sentiment(ss) ==
    IF ss = <<>>
    THEN [normalized |-> 0, label |-> NEUTRAL, counts |-> PolarityCounts]
    ELSE LET counts   == count_scores(PolarityCounts, ss)
             polarity == calculate_polarity_score(counts.bull_count,
                                                  counts.bear_count)
         IN  [normalized |-> polarity - 500,
              label      |-> overall_label(polarity),
              counts     |-> counts]

-----------------------------------------------------------------------------
(* database.py: the store *)

save_sentiment_snapshot_always_insert(table, t, region_id, score, label, headline_count, bull, bear, neutral) ==
    Append(table, [region_id       |-> region_id,
                   sentiment_score |-> score,
                   sentiment_label |-> label,
                   headline_count  |-> headline_count,
                   bull_count      |-> bull,
                   bear_count      |-> bear,
                   neutral_count   |-> neutral,
                   recorded_at     |-> t])

\* INSERT INTO sentiment_history ... ; recorded_at DEFAULT CURRENT_TIMESTAMP.
\* UNIQUE(region_id, recorded_at): the insert of a second row for the same
\* region in the same second raises IntegrityError, which is caught.
save_sentiment_snapshot(table, t, region_id, score, label, headline_count, bull, bear, neutral) ==
    IF \E i \in DOMAIN table :
           table[i].region_id = region_id /\ table[i].recorded_at = t
    THEN table
    ELSE Append(table, [region_id       |-> region_id,
                        sentiment_score |-> score,
                        sentiment_label |-> label,
                        headline_count  |-> headline_count,
                        bull_count      |-> bull,
                        bear_count      |-> bear,
                        neutral_count   |-> neutral,
                        recorded_at     |-> t])

\* save_headlines_batch(region_id, headlines): one row per headline
save_headlines_batch(table, t, region_id, headlines) ==
    table \o [i \in DOMAIN headlines |->
                 [region_id       |-> region_id,
                  title           |-> headlines[i].title,
                  sentiment_score |-> headlines[i].sentiment_score,
                  sentiment_label |-> headlines[i].sentiment_label,
                  recorded_at     |-> t]]

-----------------------------------------------------------------------------
(* database.py: the trend analyzer *)

\* timedelta(hours=1), in seconds
HOUR == 3600

\* rows sorted by recorded_at, ascending, equal keys in their given order
RECURSIVE insert_by_recorded_at(_, _)
insert_by_recorded_at(sorted, row) ==
    IF sorted = <<>> THEN <<row>>
    ELSE IF sorted[Len(sorted)].recorded_at <= row.recorded_at
         THEN Append(sorted, row)
         ELSE Append(insert_by_recorded_at(
                         SubSeq(sorted, 1, Len(sorted) - 1), row),
                     sorted[Len(sorted)])

RECURSIVE order_by_recorded_at(_)
order_by_recorded_at(rows) ==
    IF rows = <<>> THEN <<>>
    ELSE insert_by_recorded_at(
             order_by_recorded_at(SubSeq(rows, 1, Len(rows) - 1)),
             rows[Len(rows)])

\* a plausible slip: the lookback window is not applied
get_trend_data_no_cutoff(table, t, region_id, hours) ==
    LET rows == order_by_recorded_at(
                    SelectSeq(table, LAMBDA row : row.region_id = region_id))
    IN  [i \in DOMAIN rows |->
            [score |-> rows[i].sentiment_score,
             label |-> rows[i].sentiment_label,
             headline_count |-> rows[i].headline_count,
             bull_count |-> rows[i].bull_count,
             bear_count |-> rows[i].bear_count,
             neutral_count |-> rows[i].neutral_count,
             timestamp |-> rows[i].recorded_at]]

\* get_trend_data(region_id, hours): the region's snapshots recorded at or
\* after now - hours, oldest first.  (datetime.now() is local time and
\* CURRENT_TIMESTAMP is UTC: the model takes the server's zone to be UTC.)
get_trend_data(table, t, region_id, hours) ==
    LET cutoff_time == t - hours * HOUR
        rows == order_by_recorded_at(
                    SelectSeq(table, LAMBDA row :
                        row.region_id = region_id
                            /\ row.recorded_at >= cutoff_time))
    IN  [i \in DOMAIN rows |->
            [score |-> rows[i].sentiment_score,
             label |-> rows[i].sentiment_label,
             headline_count |-> rows[i].headline_count,
             bull_count |-> rows[i].bull_count,
             bear_count |-> rows[i].bear_count,
             neutral_count |-> rows[i].neutral_count,
             timestamp |-> rows[i].recorded_at]]

\* The one-decimal scores a (in tenths) for which the double a/10 - (a-20)/10
\* is not 2.0: one unit in the last place above it, or below it.
TwoRoundedUp   == {44, 49, 54, 59, 83, 88, 93, 98, 161, 166, 171, 176,
                   322, 327, 332, 337, 644, 649, 654, 659}
TwoRoundedDown == {23, 28, 33, 38, 41, 46, 51, 56, 82, 87, 92, 97,
                   164, 169, 174, 179, 323, 328, 333, 338,
                   641, 646, 651, 656}

\* last_score - first_score on doubles: the difference in tenths, and, where
\* the difference is 2.0 or -2.0 in decimal, on which side of it the double
\* falls (off = 1 above, -1 below, 0 exactly on it)
score_sub(last_score, first_score) ==
    LET d == last_score - first_score
    IN  [tenths |-> d,
         off |-> IF d = 20
                 THEN IF last_score \in TwoRoundedUp THEN 1
                      ELSE IF last_score \in TwoRoundedDown THEN -1 ELSE 0
                 ELSE IF d = -20
                 THEN IF first_score \in TwoRoundedUp THEN -1
                      ELSE IF first_score \in TwoRoundedDown THEN 1 ELSE 0
                 ELSE 0]

\* change > 2 and change < -2 on the double
GreaterThanTwo(change) ==
    change.tenths > 20 \/ (change.tenths = 20 /\ change.off > 0)
LessThanMinusTwo(change) ==
    change.tenths < -20 \/ (change.tenths = -20 /\ change.off < 0)

\* round(change, 1), in tenths
round_change(change) == change.tenths

\* a plausible slip: the boundary counted as a move
trend_direction_inclusive(change) ==
    IF change.tenths >= 20 THEN "rising"
    ELSE IF change.tenths <= -20 THEN "falling"
    ELSE "stable"

\* the if / elif / else of get_sentiment_change
trend_direction(change) ==
    IF GreaterThanTwo(change) THEN "rising"
    ELSE IF LessThanMinusTwo(change) THEN "falling"
    ELSE "stable"

\* get_sentiment_change(region_id, hours)
get_sentiment_change(table, t, region_id, hours) ==
    LET trend_data == get_trend_data(table, t, region_id, hours)
    IN  IF Len(trend_data) < 2
        THEN [change |-> 0, trend |-> "stable",
              data_points |-> Len(trend_data)]
        ELSE LET first_score == trend_data[1].score
                 last_score  == trend_data[Len(trend_data)].score
                 change      == score_sub(last_score, first_score)
             IN  [change      |-> round_change(change),
                  trend       |-> trend_direction(change),
                  first_score |-> first_score,
                  last_score  |-> last_score,
                  data_points |-> Len(trend_data)]

-----------------------------------------------------------------------------
(* database.py: the keyword extractor *)

\* rows sorted by recorded_at, descending, equal keys in their given order
RECURSIVE insert_by_recorded_at_desc(_, _)
insert_by_recorded_at_desc(sorted, row) ==
    IF sorted = <<>> THEN <<row>>
    ELSE IF sorted[Len(sorted)].recorded_at >= row.recorded_at
         THEN Append(sorted, row)
         ELSE Append(insert_by_recorded_at_desc(
                         SubSeq(sorted, 1, Len(sorted) - 1), row),
                     sorted[Len(sorted)])

RECURSIVE order_by_recorded_at_desc(_)
order_by_recorded_at_desc(rows) ==
    IF rows = <<>> THEN <<>>
    ELSE insert_by_recorded_at_desc(
             order_by_recorded_at_desc(SubSeq(rows, 1, Len(rows) - 1)),
             rows[Len(rows)])

\* The query plans of SELECT ... WHERE region_id = ? AND recorded_at >= ?.
\* The statement has no ORDER BY, so the order of the rows is the order of
\* the plan: a scan of the table (rowid order) or a scan of
\* idx_headlines_region_time (recorded_at DESC, then rowid).
QueryPlans == {"table", "index"}

\* cursor.execute(...) ; cursor.fetchall()
fetchall(plan, table, t, region_id, hours) ==
    LET cutoff_time == t - hours * HOUR
        matching == SelectSeq(table, LAMBDA row :
                        row.region_id = region_id
                            /\ row.recorded_at >= cutoff_time)
        rows == IF plan = "index" THEN order_by_recorded_at_desc(matching)
                ELSE matching
    IN  [i \in DOMAIN rows |->
            [title |-> rows[i].title,
             sentiment_label |-> rows[i].sentiment_label]]

\* a plausible slip: words of four letters kept
count_word_four_letters(keywords, word, label) ==
    IF Len(word) > 3
    THEN LET known == \E i \in DOMAIN keywords : keywords[i].word = word
             kws == IF known THEN keywords
                    ELSE Append(keywords,
                                [word |-> word, count |-> 0, positive |-> 0,
                                 negative |-> 0, neutral |-> 0])
             k == CHOOSE i \in DOMAIN kws : kws[i].word = word
         IN  [kws EXCEPT ![k] =
                 [[@ EXCEPT !.count = @ + 1] EXCEPT ![label] = @ + 1]]
    ELSE keywords

\* the body of "for word in words".  keywords is the dict, as the sequence
\* of its entries in insertion order (the order a dict iterates in).
count_word(keywords, word, label) ==
    IF Len(word) > 4
    THEN LET known == \E i \in DOMAIN keywords : keywords[i].word = word
             kws == IF known THEN keywords
                    ELSE Append(keywords,
                                [word |-> word, count |-> 0, positive |-> 0,
                                 negative |-> 0, neutral |-> 0])
             k == CHOOSE i \in DOMAIN kws : kws[i].word = word
         IN  [kws EXCEPT ![k] =
                 [[@ EXCEPT !.count = @ + 1] EXCEPT ![label] = @ + 1]]
    ELSE keywords

\* for word in words
RECURSIVE count_words(_, _, _)
count_words(keywords, words, label) ==
    IF words = <<>> THEN keywords
    ELSE count_words(count_word(keywords, Head(words), label),
                     Tail(words), label)

\* for row in rows
RECURSIVE count_rows(_, _)
count_rows(keywords, rows) ==
    IF rows = <<>> THEN keywords
    ELSE count_rows(count_words(keywords, split(lower(Head(rows).title)),
                                Head(rows).sentiment_label),
                    Tail(rows))

\* sorted(..., key=count, reverse=True): descending, and stable, so entries
\* of equal count stay in insertion order
RECURSIVE insert_by_count(_, _)
insert_by_count(sorted, stat) ==
    IF sorted = <<>> THEN <<stat>>
    ELSE IF sorted[Len(sorted)].count >= stat.count
         THEN Append(sorted, stat)
         ELSE Append(insert_by_count(SubSeq(sorted, 1, Len(sorted) - 1), stat),
                     sorted[Len(sorted)])

\* a plausible slip: sorted ascending and then reversed, which reverses the
\* entries of equal count too
RECURSIVE sorted_by_count_reversed(_)
sorted_by_count_reversed(keywords) ==
    IF keywords = <<>> THEN <<>>
    ELSE insert_by_count(sorted_by_count_reversed(Tail(keywords)),
                         Head(keywords))

RECURSIVE sorted_by_count(_)
sorted_by_count(keywords) ==
    IF keywords = <<>> THEN <<>>
    ELSE insert_by_count(
             sorted_by_count(SubSeq(keywords, 1, Len(keywords) - 1)),
             keywords[Len(keywords)])

\* the slice s[:limit]
slice_to(s, limit) ==
    IF limit >= 0
    THEN SubSeq(s, 1, IF limit < Len(s) THEN limit ELSE Len(s))
    ELSE SubSeq(s, 1, IF Len(s) + limit > 0 THEN Len(s) + limit ELSE 0)

\* get_top_keywords(region_id, hours, limit): the rows fetched, and the list
\* returned
get_top_keywords(plan, table, t, region_id, hours, limit) ==
    LET rows == fetchall(plan, table, t, region_id, hours)
        keywords == count_rows(<<>>, rows)
        sorted_keywords == sorted_by_count(keywords)
    IN  [rows |-> rows, result |-> slice_to(sorted_keywords, limit)]

-----------------------------------------------------------------------------
(* ai_insights.py: the insight rule engine *)

\* region ids as Python strings
region_chars ==
    [global     |-> <<"g", "l", "o", "b", "a", "l">>,
     us         |-> <<"u", "s">>,
     eu         |-> <<"e", "u">>,
     africa     |-> <<"a", "f", "r", "i", "c", "a">>,
     egypt      |-> <<"e", "g", "y", "p", "t">>,
     saudi      |-> <<"s", "a", "u", "d", "i">>,
     middleeast |-> <<"m", "i", "d", "d", "l", "e", "e", "a", "s", "t">>,
     mars       |-> <<"m", "a", "r", "s">>]

\* an f-string: its literal text with numbered holes, and the formatted
\* values that fill them
fstring(template, args) == [template |-> template, args |-> args]

\* a plausible slip: the boundaries counted with the outer bands
overview_card_inclusive(region_id, current_score) ==
    IF current_score >= 600
    THEN [title |-> "POSITIVE MOMENTUM",
          text  |-> fstring("Markets show strong optimism at {0}%. Positive sentiment is driving investor confidence across {1} markets.",
                            <<format_1f(current_score),
                              upper(region_chars[region_id])>>),
          color |-> "emerald", icon |-> "trending-up"]
    ELSE IF current_score <= 400
    THEN [title |-> "CAUTION ADVISED",
          text  |-> fstring("Sentiment at {0}% suggests market concerns. Economic headwinds may be affecting investor confidence.",
                            <<format_1f(current_score)>>),
          color |-> "rose", icon |-> "trending-down"]
    ELSE [title |-> "MARKET NEUTRALITY",
          text  |-> fstring("Markets show balanced sentiment at {0}%. Mixed signals from economic indicators are keeping sentiment stable.",
                            <<format_1f(current_score)>>),
          color |-> "amber", icon |-> "minus"]

\* Insight 1: Market Sentiment Overview (current_score in tenths)
overview_card(region_id, current_score) ==
    IF current_score > 600
    THEN [title |-> "POSITIVE MOMENTUM",
          text  |-> fstring("Markets show strong optimism at {0}%. Positive sentiment is driving investor confidence across {1} markets.",
                            <<format_1f(current_score),
                              upper(region_chars[region_id])>>),
          color |-> "emerald", icon |-> "trending-up"]
    ELSE IF current_score < 400
    THEN [title |-> "CAUTION ADVISED",
          text  |-> fstring("Sentiment at {0}% suggests market concerns. Economic headwinds may be affecting investor confidence.",
                            <<format_1f(current_score)>>),
          color |-> "rose", icon |-> "trending-down"]
    ELSE [title |-> "MARKET NEUTRALITY",
          text  |-> fstring("Markets show balanced sentiment at {0}%. Mixed signals from economic indicators are keeping sentiment stable.",
                            <<format_1f(current_score)>>),
          color |-> "amber", icon |-> "minus"]

\* the card of Insight 2, whatever data_points is
trend_card(trend) ==
    IF trend.trend = "rising"
    THEN [title |-> "UPWARD TREND",
          text  |-> fstring("Sentiment has improved by {0}% over the last 24 hours. Optimistic momentum is building.",
                            <<format_1f(Abs(trend.change))>>),
          color |-> "emerald", icon |-> "chevron-up"]
    ELSE IF trend.trend = "falling"
    THEN [title |-> "DOWNWARD PRESSURE",
          text  |-> fstring("Sentiment declined by {0}% in the past 24 hours. Watch for potential further corrections.",
                            <<format_1f(Abs(trend.change))>>),
          color |-> "rose", icon |-> "chevron-down"]
    ELSE [title |-> "STABLE OUTLOOK",
          text  |-> fstring("Sentiment remains stable with minimal change ({0}%). Markets consolidating around current levels.",
                            <<format_plus_1f(trend.change)>>),
          color |-> "blue", icon |-> "minus"]

\* a plausible slip: a single snapshot already narrated as a trend
trend_cards_single_point(trend) ==
    IF trend.data_points > 0 THEN <<trend_card(trend)>> ELSE <<>>

\* Insight 2: Trend Analysis, appended only if data_points > 1
trend_cards(trend) ==
    IF trend.data_points > 1 THEN <<trend_card(trend)>> ELSE <<>>

\* a plausible slip: the boundaries counted with the upper tiers
volume_card_inclusive(headline_count) ==
    IF headline_count >= 50
    THEN [title |-> "HIGH NEWS VOLUME",
          text  |-> fstring("Unusually high activity with {0} headlines. Major economic events may be driving increased coverage.",
                            <<str_nat(headline_count)>>),
          color |-> "purple", icon |-> "file-text"]
    ELSE IF headline_count >= 20
    THEN [title |-> "ACTIVE NEWS CYCLE",
          text  |-> fstring("{0} headlines analyzed. Normal market activity with steady information flow.",
                            <<str_nat(headline_count)>>),
          color |-> "blue", icon |-> "bar-chart"]
    ELSE [title |-> "LIGHT NEWS DAY",
          text  |-> fstring("Only {0} headlines found. Lower news volume may indicate quieter market conditions.",
                            <<str_nat(headline_count)>>),
          color |-> "slate", icon |-> "clipboard"]

\* Insight 3: Volume Analysis
volume_card(headline_count) ==
    IF headline_count > 50
    THEN [title |-> "HIGH NEWS VOLUME",
          text  |-> fstring("Unusually high activity with {0} headlines. Major economic events may be driving increased coverage.",
                            <<str_nat(headline_count)>>),
          color |-> "purple", icon |-> "file-text"]
    ELSE IF headline_count > 20
    THEN [title |-> "ACTIVE NEWS CYCLE",
          text  |-> fstring("{0} headlines analyzed. Normal market activity with steady information flow.",
                            <<str_nat(headline_count)>>),
          color |-> "blue", icon |-> "bar-chart"]
    ELSE [title |-> "LIGHT NEWS DAY",
          text  |-> fstring("Only {0} headlines found. Lower news volume may indicate quieter market conditions.",
                            <<str_nat(headline_count)>>),
          color |-> "slate", icon |-> "clipboard"]

\* Insight 4: Keyword-based insight, appended only if keywords is non-empty
keyword_cards(keywords) ==
    IF keywords # <<>>
    THEN LET top_keyword == keywords[1]
             keyword_sentiment ==
                 IF top_keyword.positive > top_keyword.negative
                 THEN <<"o", "p", "t", "i", "m", "i", "s", "t", "i", "c">>
                 ELSE IF top_keyword.negative > top_keyword.positive
                 THEN <<"p", "e", "s", "s", "i", "m", "i", "s", "t", "i", "c">>
                 ELSE <<"n", "e", "u", "t", "r", "a", "l">>
         IN  <<[title |-> "TOP TOPIC",
                text  |-> fstring("'{0}' is the most discussed topic with {1} mentions. Sentiment around this topic is {2}.",
                                  <<str_title(top_keyword.word),
                                    str_nat(top_keyword.count),
                                    keyword_sentiment>>),
                color |-> "cyan", icon |-> "search"]>>
    ELSE <<>>

\* regional_insights (REGIONS.get(region_id, region_id) is region_id wherever
\* the fallback text is used: the keys of regional_insights are those of
\* REGIONS)
regional_insights ==
    [global     |-> "Global markets interconnected - watch for spillover effects from major economies.",
     us         |-> "Fed policy and employment data remain key drivers for American market sentiment.",
     eu         |-> "ECB decisions and energy prices continue to shape European economic outlook.",
     africa     |-> "Infrastructure investment and commodity prices driving African development narrative.",
     egypt      |-> "Currency stability and Suez Canal revenues crucial for Egyptian economic health.",
     saudi      |-> "Vision 2030 progress and oil diversification efforts shaping Saudi market narrative.",
     middleeast |-> "Regional cooperation and energy transition policies impacting Gulf economies."]

\* Insight 5: Regional context
regional_card(region_id) ==
    [title |-> "REGIONAL CONTEXT",
     text  |-> IF region_id \in DOMAIN regional_insights
               THEN fstring(regional_insights[region_id], <<>>)
               ELSE fstring("Monitoring key economic indicators for {0}.",
                            <<region_chars[region_id]>>),
     color |-> "indigo", icon |-> "globe"]

\* the rules of generate_insights, lines 19 to 121: the list built from the
\* arguments and from what the two queries returned
insight_cards(region_id, current_score, headline_count, trend, keywords) ==
    slice_to(<<overview_card(region_id, current_score)>>
                 \o trend_cards(trend)
                 \o <<volume_card(headline_count)>>
                 \o keyword_cards(keywords)
                 \o <<regional_card(region_id)>>,
             5)

\* generate_insights(region_id, current_score, current_label, headline_count):
\* the queries it makes, what they return, and the list it returns
generate_insights(snapshots, headlines, t, plan, region_id, current_score, current_label, headline_count) ==
    LET trend == get_sentiment_change(snapshots, t, region_id, 24)
        top   == get_top_keywords(plan, headlines, t, region_id, 24, 5)
    IN  [queries    |-> <<"get_sentiment_change", "get_top_keywords">>,
         trend_info |-> trend,
         rows       |-> top.rows,
         keywords   |-> top.result,
         insights   |-> insight_cards(region_id, current_score, headline_count,
                                      trend, top.result)]

-----------------------------------------------------------------------------
(* main.py *)

\* The threads of the service: the event loop, which runs the async
\* handlers one at a time, and the thread pool worker that runs the
\* background task of /api/collect
Threads == {"loop", "worker"}

\* a thread that runs no handler (refreshed records the /api/refresh that
\* the thread has seen since it fetched the headlines of rs: "begun" when
\* the request was accepted, "done" when its cache.clear() has returned)
IdleThread ==
    [pc |-> "idle", handler |-> "none", region_id |-> "none",
     save_to_db |-> FALSE, todo |-> <<>>, rs |-> None, ret |-> None,
     from_cache |-> FALSE, refreshed |-> "none"]

\* REGIONS (models.py) and SCRAPERS: the same seven keys
REGIONS == {"global", "us", "eu", "africa", "egypt", "saudi", "middleeast"}
SCRAPERS == REGIONS

\* TTLCache(maxsize=100, ttl=900)
CACHE_TTL == 900

\* cache_key = f"region_{region_id}"
cache_key(region_id) == <<"region", region_id>>

\* key in cache: present and not past its time-to-live
cache_contains(c, key, t) == key \in DOMAIN c /\ t < c[key].expires

\* cache[key] = value: expired entries are dropped, the entry is stamped.
\* (maxsize 100 is never reached: at most seven keys are ever stored)
cache_setitem(c, key, value, t) ==
    LET live  == {k \in DOMAIN c : t < c[k].expires}
        entry == [value |-> value, expires |-> t + CACHE_TTL]
    IN  [k \in live \cup {key} |-> IF k = key THEN entry ELSE c[k]]

cache_getitem_any_age(c, key, t) ==
    IF key \in DOMAIN c
    THEN [ok |-> TRUE, value |-> c[key].value]
    ELSE [ok |-> FALSE, error |-> "KeyError"]

\* cache[key]: the value, or KeyError for a key that is absent or past its
\* time-to-live
cache_getitem(c, key, t) ==
    IF key \in DOMAIN c /\ t < c[key].expires
    THEN [ok |-> TRUE, value |-> c[key].value]
    ELSE [ok |-> FALSE, error |-> "KeyError"]

\* TTLCache.expire(time): the entries still alive
cache_expire(c, t) ==
    LET live == {k \in DOMAIN c : t < c[k].expires}
    IN  [k \in live |-> c[k]]

\* the keys popitem may take next: the oldest entries
cache_oldest(c) ==
    {k \in DOMAIN c : \A j \in DOMAIN c : c[k].expires <= c[j].expires}

\* the cache without key
cache_pop(c, key) == [k \in DOMAIN c \ {key} |-> c[k]]

cache_popitem_expired_only(c, t) ==
    {[ok |-> FALSE, cache |-> cache_expire(c, t)]}

\* cache.popitem(): expired entries are dropped, then the oldest entry is
\* removed, or KeyError is raised when none is left.  The outcomes: entries
\* stamped in the same instant are taken in either order.
cache_popitem(c, t) ==
    LET live == cache_expire(c, t)
    IN  IF live = <<>>
        THEN {[ok |-> FALSE, cache |-> live]}
        ELSE {[ok |-> TRUE, cache |-> cache_pop(live, key)] :
                 key \in cache_oldest(live)}

\* the loop of process_region over raw_headlines
RECURSIVE analyze_headlines(_, _, _)
analyze_headlines(acc, raw_headlines, loaded) ==
    IF raw_headlines = <<>> THEN acc
    ELSE LET raw == Head(raw_headlines)
         IN  IF is_noise(raw.title)
             THEN analyze_headlines(
                      [acc EXCEPT !.filtered_count = @ + 1],
                      Tail(raw_headlines), loaded)
             ELSE LET r == analyze(loaded, raw.title, raw.verdict)
                      h == [title           |-> raw.title,
                            sentiment_score |-> r.score,
                            sentiment_label |-> r.label]
                  IN  analyze_headlines(
                          [acc EXCEPT !.scores = Append(@, r.score),
                                      !.headlines = Append(@, h),
                                      !.headlines_for_db = Append(@, h)],
                          Tail(raw_headlines), loaded)

\* a plausible slip: every classified headline enters the denominator
region_polarity_over_all(counts) ==
    LET total == counts.bull_count + counts.bear_count + counts.neutral_count
    IN  IF total = 0 THEN 500
        ELSE RoundHalfEven(counts.bull_count * 1000, total)

\* polarity_score = analyzer.calculate_polarity_score(bull_count, bear_count)
region_polarity(counts) ==
    calculate_polarity_score(counts.bull_count, counts.bear_count)

\* the RegionSentiment process_region builds from the fetched headlines
region_sentiment(region_id, raw_headlines, loaded, t) ==
    LET batch  == analyze_headlines(
                      [headlines |-> <<>>, scores |-> <<>>,
                       headlines_for_db |-> <<>>, filtered_count |-> 0],
                      raw_headlines, loaded)
        result == aggregate_sentiment(batch.scores)
        n      == Len(batch.headlines)
    IN  [region_id       |-> region_id,
         sentiment_score |-> region_polarity(result.counts),
         sentiment_label |-> result.label,
         headline_count  |-> n,
         bull_count      |-> result.counts.bull_count,
         bear_count      |-> result.counts.bear_count,
         neutral_count   |-> result.counts.neutral_count,
         filtered_count  |-> batch.filtered_count,
         top_headlines   |-> SubSeq(batch.headlines, 1, IF n < 10 THEN n ELSE 10),
         headlines_for_db |-> batch.headlines_for_db,
         last_updated    |-> t]

\* what process_region returns: the RegionSentiment without the model's
\* working field
Returned(rs) == [f \in DOMAIN rs \ {"headlines_for_db"} |-> rs[f]]

\* process_region(region_id, save_to_db)
ProcessRegion(region_id, save_to_db) ==
    LET key == cache_key(region_id)
        rs  == region_sentiment(region_id, feed[region_id], model_loaded, now)
    IN  IF cache_contains(cache, key, now)
        THEN /\ response' = [ok |-> TRUE, value |-> cache[key].value]
             /\ UNCHANGED <<cache, sentiment_history, headlines_history>>
        ELSE IF region_id \notin SCRAPERS
        THEN /\ response' = [ok |-> FALSE, error |-> "ValueError"]
             /\ UNCHANGED <<cache, sentiment_history, headlines_history>>
        ELSE /\ IF save_to_db /\ rs.headline_count > 0
                THEN /\ sentiment_history' =
                            save_sentiment_snapshot(
                                sentiment_history, now, region_id,
                                rs.sentiment_score, rs.sentiment_label,
                                rs.headline_count, 0, 0, 0)
                     /\ headlines_history' =
                            save_headlines_batch(
                                headlines_history, now, region_id,
                                rs.headlines_for_db)
                ELSE UNCHANGED <<sentiment_history, headlines_history>>
             /\ cache' = cache_setitem(cache, key, Returned(rs), now)
             /\ response' = [ok |-> TRUE, value |-> Returned(rs)]

\* process_region(region_id, save_to_db) as a function of the service state
\* st = [cache, sentiment_history, headlines_history]: the state it leaves,
\* with result, the RegionSentiment returned or the exception raised
process_region(st, feeds, loaded, t, region_id, save_to_db) ==
    LET key == cache_key(region_id)
    IN  IF cache_contains(st.cache, key, t)
        THEN [cache             |-> st.cache,
              sentiment_history |-> st.sentiment_history,
              headlines_history |-> st.headlines_history,
              result |-> [ok |-> TRUE, value |-> st.cache[key].value]]
        ELSE IF region_id \notin SCRAPERS
        THEN [cache             |-> st.cache,
              sentiment_history |-> st.sentiment_history,
              headlines_history |-> st.headlines_history,
              result |-> [ok |-> FALSE, error |-> "ValueError"]]
        ELSE LET rs    == region_sentiment(region_id, feeds[region_id],
                                           loaded, t)
                 saves == save_to_db /\ rs.headline_count > 0
             IN  [cache |-> cache_setitem(st.cache, key, Returned(rs), t),
                  sentiment_history |->
                      IF saves
                      THEN save_sentiment_snapshot(
                               st.sentiment_history, t, region_id,
                               rs.sentiment_score, rs.sentiment_label,
                               rs.headline_count, 0, 0, 0)
                      ELSE st.sentiment_history,
                  headlines_history |->
                      IF saves
                      THEN save_headlines_batch(st.headlines_history, t,
                                                region_id, rs.headlines_for_db)
                      ELSE st.headlines_history,
                  result |-> [ok |-> TRUE, value |-> Returned(rs)]]

region_known_any(region_id) ==
    TRUE

\* the endpoints' test "region_id not in REGIONS", negated
region_known(region_id) ==
    region_id \in REGIONS

\* raise HTTPException(status_code=404, ...): nothing is touched
not_found(st) ==
    [cache             |-> st.cache,
     sentiment_history |-> st.sentiment_history,
     headlines_history |-> st.headlines_history,
     response          |-> [status |-> 404, detail |-> "Region not found"]]

\* GET /api/regions/{region_id}  (out is the one value of process_region,
\* taken from a one-element set so that it is computed once)
get_region(st, feeds, loaded, t, region_id) ==
    IF ~region_known(region_id) THEN not_found(st)
    ELSE CHOOSE answer \in
             {[cache             |-> out.cache,
               sentiment_history |-> out.sentiment_history,
               headlines_history |-> out.headlines_history,
               response |->
                   IF out.result.ok
                   THEN [status |-> 200, success |-> TRUE,
                         data |-> <<out.result.value>>]
                   ELSE [status |-> 200, success |-> FALSE,
                         error |-> out.result.error]] :
              out \in {process_region(st, feeds, loaded, t, region_id,
                                      TRUE)}} : TRUE

\* GET /api/regions/{region_id}/trend
get_region_trend(st, t, region_id, hours) ==
    IF ~region_known(region_id) THEN not_found(st)
    ELSE LET trend_data == get_trend_data(st.sentiment_history, t, region_id,
                                          hours)
             trend      == get_sentiment_change(st.sentiment_history, t,
                                                region_id, hours)
         IN  [cache             |-> st.cache,
              sentiment_history |-> st.sentiment_history,
              headlines_history |-> st.headlines_history,
              response |-> [status |-> 200, success |-> TRUE,
                            region_id |-> region_id,
                            trend |-> trend.trend,
                            change |-> trend.change,
                            data_points |-> Len(trend_data),
                            data |-> trend_data]]

\* GET /api/regions/{region_id}/insights
get_region_insights(st, feeds, loaded, t, region_id, plan) ==
    IF ~region_known(region_id) THEN not_found(st)
    ELSE CHOOSE answer \in
             {[cache             |-> out.cache,
               sentiment_history |-> out.sentiment_history,
               headlines_history |-> out.headlines_history,
               response |->
                   IF out.result.ok
                   THEN [status |-> 200, success |-> TRUE,
                         region_id |-> region_id,
                         insights |->
                             generate_insights(
                                 out.sentiment_history, out.headlines_history,
                                 t, plan, region_id,
                                 out.result.value.sentiment_score,
                                 out.result.value.sentiment_label,
                                 out.result.value.headline_count).insights]
                   ELSE [status |-> 500, detail |-> out.result.error]] :
              out \in {process_region(st, feeds, loaded, t, region_id,
                                      FALSE)}} : TRUE

remaining_after_abort(todo, raised) ==
    IF raised THEN <<>> ELSE Tail(todo)

\* "except Exception: log and continue" inside the for loop of a bulk
\* operation: the regions still to do after the first of todo
remaining_after(todo, raised) ==
    Tail(todo)

\* the body of the for loop of get_all_regions and of collect_all for one
\* region: the try around process_region and its except branch.  failing is
\* the set of regions for which process_region raises; acc collects the
\* state, the regions attempted, the data returned and the errors logged.
\* (out is the one value of process_region, taken from a one-element set so
\* that it is computed once)
try_process_region(acc, feeds, loaded, t, failing, region_id) ==
    IF region_id \in failing
    THEN [acc EXCEPT !.attempted = Append(@, region_id),
                     !.errors = Append(@, region_id)]
    ELSE CHOOSE next \in
             {[cache             |-> out.cache,
               sentiment_history |-> out.sentiment_history,
               headlines_history |-> out.headlines_history,
               attempted |-> Append(acc.attempted, region_id),
               data      |-> Append(acc.data, out.result.value),
               errors    |-> acc.errors] :
              out \in {process_region(acc, feeds, loaded, t, region_id,
                                      TRUE)}} : TRUE

\* the for loop of get_all_regions and of collect_all over todo
RECURSIVE for_process_region(_, _, _, _, _, _)
for_process_region(todo, feeds, loaded, t, failing, acc) ==
    IF todo = <<>> THEN acc
    ELSE CHOOSE done \in
             {for_process_region(
                  remaining_after(todo, Head(todo) \in failing), feeds,
                  loaded, t, failing, next) :
              next \in {try_process_region(acc, feeds, loaded, t, failing,
                                           Head(todo))}} : TRUE

-----------------------------------------------------------------------------
(* celery_tasks.py *)

\* the loop of collect_region_data and of run_collection_now over
\* raw_headlines: every headline is analyzed and kept
RECURSIVE collect_headlines(_, _)
collect_headlines(raw_headlines, loaded) ==
    IF raw_headlines = <<>> THEN <<>>
    ELSE LET raw == Head(raw_headlines)
             r   == analyze(loaded, raw.title, raw.verdict)
         IN  <<[title           |-> raw.title,
                sentiment_score |-> r.score,
                sentiment_label |-> r.label]>>
             \o collect_headlines(Tail(raw_headlines), loaded)

\* the body of collect_region_data after the fetch, up to the saves: the
\* dict it returns, with the locals headlines and polarity_counts
collect_region(region_id, raw_headlines, loaded) ==
    IF raw_headlines = <<>>
    THEN [success |-> FALSE, region |-> region_id, error |-> "No headlines"]
    ELSE LET headlines == collect_headlines(raw_headlines, loaded)
             result    == aggregate_sentiment(
                              [i \in DOMAIN headlines |->
                                  headlines[i].sentiment_score])
         IN  [success         |-> TRUE,
              region          |-> region_id,
              score           |-> calculate_polarity_score(
                                      result.counts.bull_count,
                                      result.counts.bear_count),
              label           |-> result.label,
              headline_count  |-> Len(headlines),
              headlines       |-> headlines,
              polarity_counts |-> result.counts]

\* the snapshot table after the save of collect_region_data
collect_save_snapshot(table, t, collected) ==
    IF collected.success
    THEN save_sentiment_snapshot(table, t, collected.region, collected.score,
                                 collected.label, collected.headline_count,
                                 0, 0, 0)
    ELSE table

\* the headline table after the save of collect_region_data
collect_save_headlines(table, t, collected) ==
    IF collected.success
    THEN save_headlines_batch(table, t, collected.region, collected.headlines)
    ELSE table

\* run_collection_now: the tables after the regions of todo, in order
RECURSIVE run_collection(_, _, _, _, _)
run_collection(todo, feeds, loaded, t, tables) ==
    IF todo = <<>> THEN tables
    ELSE LET collected == collect_region(Head(todo), feeds[Head(todo)], loaded)
         IN  run_collection(
                 Tail(todo), feeds, loaded, t,
                 [sentiment_history |->
                      collect_save_snapshot(tables.sentiment_history, t,
                                            collected),
                  headlines_history |->
                      collect_save_headlines(tables.headlines_history, t,
                                             collected),
                  outcomes |-> Append(tables.outcomes, collected)])

\* the body of the for loop of collect_all_regions and of
\* run_collection_now for one region.  failing is the set of regions for
\* which the collection raises inside its try block; acc collects the
\* tables, the regions attempted, the result of each and the errors logged
try_collect_region(acc, feeds, loaded, t, failing, region_id) ==
    IF region_id \in failing
    THEN [acc EXCEPT
             !.attempted = Append(@, region_id),
             !.data = Append(@, [success |-> FALSE, region |-> region_id,
                                 error |-> "Exception"]),
             !.errors = Append(@, region_id)]
    ELSE CHOOSE next \in
             {[cache             |-> acc.cache,
               sentiment_history |->
                   collect_save_snapshot(acc.sentiment_history, t, collected),
               headlines_history |->
                   collect_save_headlines(acc.headlines_history, t,
                                          collected),
               attempted |-> Append(acc.attempted, region_id),
               data      |-> Append(acc.data, collected),
               errors    |-> acc.errors] :
              collected \in {collect_region(region_id, feeds[region_id],
                                            loaded)}} : TRUE

\* the for loop of collect_all_regions and of run_collection_now over todo
RECURSIVE for_collect_region(_, _, _, _, _, _)
for_collect_region(todo, feeds, loaded, t, failing, acc) ==
    IF todo = <<>> THEN acc
    ELSE CHOOSE done \in
             {for_collect_region(
                  remaining_after(todo, Head(todo) \in failing), feeds,
                  loaded, t, failing, next) :
              next \in {try_collect_region(acc, feeds, loaded, t, failing,
                                           Head(todo))}} : TRUE

-----------------------------------------------------------------------------
\* the service after start-up: model loaded, nothing fetched, cached or stored
IdleService ==
    /\ model_loaded = TRUE
    /\ feed = [r \in SCRAPERS |-> <<>>]
    /\ cache = <<>>
    /\ sentiment_history = <<>>
    /\ headlines_history = <<>>
    /\ now = 0
    /\ request = None
    /\ response = None
    /\ trend_info = None
    /\ keyword_rows = <<>>
    /\ top_keywords = <<>>
    /\ insights = <<>>
    /\ db_queries = <<>>
    /\ earlier_call = None
    /\ thread = [t \in Threads |-> IdleThread]
    /\ put_log = <<>>
    /\ handled = 0

-----------------------------------------------------------------------------
(* The inputs of aggregate_sentiment *)

\* scores in hundredths: both sides of the hard-coded 0.1 and of the
\* exposed 0.6, and the extremes
ScoreValues == {-100, -61, -60, -11, -10, 0, 10, 11, 60, 61, 100}

\* n copies of x
RECURSIVE Repeat(_, _)
Repeat(x, n) == IF n = 0 THEN <<>> ELSE <<x>> \o Repeat(x, n - 1)

\* every sequence over S of length at most n
SeqsUpTo(S, n) == UNION {[1..k -> S] : k \in 0..n}

\* b confident positives, r confident negatives, n neutrals
RunScores == {Repeat(50, b) \o Repeat(-50, r) \o Repeat(0, n) :
                 b \in 0..MaxRun, r \in 0..MaxRun, n \in 0..MaxNeutralRun}

ScoreInputs == SeqsUpTo(ScoreValues, MaxScores) \cup RunScores

-----------------------------------------------------------------------------
(* Specification SpecAggregate: one call of aggregate_sentiment *)

InitAggregate ==
    /\ pc = "call"
    /\ scores \in ScoreInputs
    /\ agg = None
    /\ bull_count = 0 /\ bear_count = 0
    /\ polarity_score = calculate_polarity_score(0, 0)
    /\ IdleService

AggregateSentiment ==
    /\ pc = "call"
    /\ agg' = aggregate_sentiment(scores)
    /\ pc' = "done"
    /\ UNCHANGED <<scores, bull_count, bear_count, polarity_score, svc_vars, qry_vars, ins_vars, thr_vars>>

NextAggregate == AggregateSentiment

SpecAggregate == InitAggregate /\ [][NextAggregate]_vars

-----------------------------------------------------------------------------
(* Specification SpecPolarity: calculate_polarity_score as the bull and   *)
(* bear counts of a batch grow one headline at a time                     *)

InitPolarity ==
    /\ pc = "polarity"
    /\ bull_count = 0
    /\ bear_count = 0
    /\ polarity_score = calculate_polarity_score(0, 0)
    /\ scores = <<>> /\ agg = None
    /\ IdleService

\* one more bull headline in the batch
PolarityAddBull ==
    /\ pc = "polarity"
    /\ bull_count < MaxRun
    /\ bull_count' = bull_count + 1
    /\ polarity_score' = calculate_polarity_score(bull_count', bear_count)
    /\ UNCHANGED <<pc, bear_count, scores, agg, svc_vars, qry_vars, ins_vars, thr_vars>>

\* one more bear headline in the batch
PolarityAddBear ==
    /\ pc = "polarity"
    /\ bear_count < MaxRun
    /\ bear_count' = bear_count + 1
    /\ polarity_score' = calculate_polarity_score(bull_count, bear_count')
    /\ UNCHANGED <<pc, bull_count, scores, agg, svc_vars, qry_vars, ins_vars, thr_vars>>

NextPolarity == PolarityAddBull \/ PolarityAddBear

SpecPolarity == InitPolarity /\ [][NextPolarity]_vars

-----------------------------------------------------------------------------
(* The inputs of process_region *)

TitleRally   == <<"S", "t", "o", "c", "k", "s", " ", "r", "a", "l", "l", "y">>
TitleTumble  == <<"M", "a", "r", "k", "e", "t", "s", " ", "t", "u", "m", "b", "l", "e">>
TitleHolds   == <<"B", "a", "n", "k", " ", "h", "o", "l", "d", "s", " ", "r", "a", "t", "e", "s">>
TitleOpinion == <<"O", "P", "I", "N", "I", "O", "N", ":", " ", "r", "a", "t", "e", "s">>
TitleOil     == <<"O", "i", "l", " ", "j", "u", "m", "p", "s">>
TitleBlank   == <<" ">>

\* raw headlines as a scraper returns them, each with the model's verdict
RawBull    == [title |-> TitleRally,
               verdict |-> [pred |-> POSITIVE, confidence |-> 50]]
RawBear    == [title |-> TitleTumble,
               verdict |-> [pred |-> NEGATIVE, confidence |-> 50]]
RawNeutral == [title |-> TitleHolds,
               verdict |-> [pred |-> NEUTRAL, confidence |-> 50]]
RawNoise   == [title |-> TitleOpinion,
               verdict |-> [pred |-> POSITIVE, confidence |-> 50]]
RawFailing == [title |-> TitleOil,
               verdict |-> [pred |-> "error", confidence |-> 0]]
RawBlank   == [title |-> TitleBlank,
               verdict |-> [pred |-> POSITIVE, confidence |-> 50]]

RawPool == {RawBull, RawBear, RawNeutral, RawNoise, RawFailing, RawBlank}

\* b bullish, r bearish, n neutral headlines and f noise headlines
RunBatches == {Repeat(RawBull, b) \o Repeat(RawBear, r)
                   \o Repeat(RawNeutral, n) \o Repeat(RawNoise, f) :
                 b \in 0..MaxBatchRun, r \in 0..MaxBatchRun,
                 n \in 0..MaxNeutralRun, f \in 0..MaxNeutralRun}

BatchInputs == SeqsUpTo(RawPool, MaxBatch) \cup RunBatches

\* the region identifiers a caller passes: two known ones and an unknown one
RequestRegions == {"global", "egypt", "mars"}

-----------------------------------------------------------------------------
(* Specification SpecBatch: two calls of process_region on a service that *)
(* has just started, every region's source returning the same batch       *)

InitBatch ==
    /\ pc = "first"
    /\ model_loaded \in BOOLEAN
    /\ \E batch \in BatchInputs : feed = [r \in SCRAPERS |-> batch]
    /\ cache = <<>>
    /\ sentiment_history = <<>>
    /\ headlines_history = <<>>
    /\ now = 0
    /\ request = None
    /\ response = None
    /\ trend_info = None
    /\ keyword_rows = <<>>
    /\ top_keywords = <<>>
    /\ insights = <<>>
    /\ db_queries = <<>>
    /\ earlier_call = None
    /\ thread = [t \in Threads |-> IdleThread]
    /\ put_log = <<>>
    /\ handled = 0
    /\ scores = <<>> /\ agg = None
    /\ bull_count = 0 /\ bear_count = 0
    /\ polarity_score = calculate_polarity_score(0, 0)

BatchProcessRegion ==
    /\ pc \in {"first", "second"}
    /\ \E region_id \in RequestRegions, save_to_db \in BOOLEAN :
          /\ request' = [region_id |-> region_id, save_to_db |-> save_to_db]
          /\ ProcessRegion(region_id, save_to_db)
    /\ pc' = IF pc = "first" THEN "second" ELSE "done"
    /\ UNCHANGED <<model_loaded, feed, now, agg_vars, qry_vars, ins_vars, thr_vars>>

NextBatch == BatchProcessRegion

SpecBatch == InitBatch /\ [][NextBatch]_vars

-----------------------------------------------------------------------------
(* Specification SpecTrend: snapshots are saved as hours pass, then one   *)
(* call of get_sentiment_change                                           *)

TrendRegions == {"egypt", "us"}

\* polarity scores in tenths: the scenario 40.0, 45.0, 58.0; 42.0 and 42.1,
\* which are 2.0 and 2.1 above 40.0; and 2.4 and 4.4, whose difference as
\* doubles is just above 2.0
TrendScores == {24, 44, 400, 420, 421, 450, 580}

\* the lookback windows asked for: one hour, and the default
HoursValues == {1, 24}

InitTrend ==
    /\ pc = "collect"
    /\ scores = <<>> /\ agg = None
    /\ bull_count = 0 /\ bear_count = 0
    /\ polarity_score = calculate_polarity_score(0, 0)
    /\ IdleService

\* a collection cycle saves the snapshot of a region
TrendSave ==
    /\ pc = "collect"
    /\ Len(sentiment_history) < MaxSnapshots
    /\ \E region_id \in TrendRegions, score \in TrendScores :
          sentiment_history' =
              save_sentiment_snapshot(sentiment_history, now, region_id,
                                      score, overall_label(score), 1, 0, 0, 0)
    /\ UNCHANGED <<pc, agg_vars, model_loaded, feed, cache, headlines_history,
                   now, request, response, qry_vars, ins_vars, thr_vars>>

\* an hour passes
TrendTick ==
    /\ pc = "collect"
    /\ now < MaxHours * HOUR
    /\ now' = now + HOUR
    /\ UNCHANGED <<pc, agg_vars, model_loaded, feed, cache, sentiment_history,
                   headlines_history, request, response, qry_vars, ins_vars, thr_vars>>

TrendQuery ==
    /\ pc = "collect"
    /\ \E region_id \in TrendRegions, hours \in HoursValues :
          /\ request' = [region_id |-> region_id, hours |-> hours]
          /\ trend_info' =
                 get_sentiment_change(sentiment_history, now, region_id, hours)
    /\ pc' = "queried"
    /\ UNCHANGED <<agg_vars, model_loaded, feed, cache, sentiment_history,
                   headlines_history, now, response, keyword_rows,
                   top_keywords, ins_vars, thr_vars>>

NextTrend == TrendSave \/ TrendTick \/ TrendQuery

SpecTrend == InitTrend /\ [][NextTrend]_vars

-----------------------------------------------------------------------------
(* Specification SpecKeywords: headlines are saved as time passes, then    *)
(* one call of get_top_keywords                                            *)

KeywordTitleRally == <<"R", "a", "l", "l", "y", " ", "r", "a", "t", "e">>
KeywordTitleRates == <<"r", "a", "t", "e", "s", " ", "R", "A", "L", "L", "Y", " ", "g", "a", "i", "n", "s">>
KeywordTitleGains == <<"g", "a", "i", "n", "s", " ", " ", "r", "a", "t", "e", "s">>
KeywordTitles == {KeywordTitleRally, KeywordTitleRates, KeywordTitleGains}

\* the labels process_region stores
KeywordLabels == {POSITIVE, NEUTRAL, NEGATIVE}

\* the analysed headline process_region hands to save_headlines_batch
Headline(title, label) ==
    [title |-> title,
     sentiment_score |-> IF label = POSITIVE THEN 90
                         ELSE IF label = NEGATIVE THEN -90 ELSE 0,
     sentiment_label |-> label]

\* what is saved: any headline for the region asked about, one headline for
\* another region
KeywordSaves ==
    {[region_id |-> "egypt", headline |-> Headline(title, label)] :
        title \in KeywordTitles, label \in KeywordLabels}
    \cup {[region_id |-> "us",
           headline |-> Headline(KeywordTitleRates, POSITIVE)]}

KeywordRegions == {"egypt", "us"}

\* the limits asked for: none, fewer than the keywords of the pool, and the
\* limit ai_insights.py passes
LimitValues == {0, 1, 2, 5}

InitKeywords ==
    /\ pc = "collect"
    /\ scores = <<>> /\ agg = None
    /\ bull_count = 0 /\ bear_count = 0
    /\ polarity_score = calculate_polarity_score(0, 0)
    /\ IdleService

\* a collection cycle saves a headline of a region
KeywordSave ==
    /\ pc = "collect"
    /\ Len(headlines_history) < MaxRows
    /\ \E save \in KeywordSaves :
          headlines_history' =
              save_headlines_batch(headlines_history, now, save.region_id,
                                   <<save.headline>>)
    /\ UNCHANGED <<pc, agg_vars, model_loaded, feed, cache, sentiment_history,
                   now, request, response, qry_vars, ins_vars, thr_vars>>

\* two hours pass
KeywordTick ==
    /\ pc = "collect"
    /\ now < MaxHours * HOUR
    /\ now' = now + 2 * HOUR
    /\ UNCHANGED <<pc, agg_vars, model_loaded, feed, cache, sentiment_history,
                   headlines_history, request, response, qry_vars, ins_vars, thr_vars>>

KeywordQuery ==
    /\ pc = "collect"
    /\ \E region_id \in KeywordRegions, hours \in HoursValues,
          limit \in LimitValues, plan \in QueryPlans :
          LET out == get_top_keywords(plan, headlines_history, now,
                                      region_id, hours, limit)
          IN  /\ request' = [region_id |-> region_id, hours |-> hours,
                             limit |-> limit]
              /\ keyword_rows' = out.rows
              /\ top_keywords' = out.result
    /\ pc' = "queried"
    /\ UNCHANGED <<agg_vars, model_loaded, feed, cache, sentiment_history,
                   headlines_history, now, response, trend_info, ins_vars, thr_vars>>

NextKeywords == KeywordSave \/ KeywordTick \/ KeywordQuery

SpecKeywords == InitKeywords /\ [][NextKeywords]_vars

-----------------------------------------------------------------------------
(* Specification SpecInsights: snapshots and headlines are saved as hours  *)
(* pass, then one call of generate_insights.                               *)
(* Specification SpecInsightsRepeat: the same, then the call is made again *)
(* with the same arguments, the store having gone on in between.           *)

\* the regions asked about: one with history, one that is not in REGIONS
InsightRegions == {"egypt", "mars"}

\* polarity scores in tenths, on both sides of 40.0 and of 60.0
CurrentScores == {399, 400, 600, 601}

\* headline counts on both sides of 20 and of 50, and the scenario's 75
HeadlineCounts == {20, 21, 50, 51, 75}

\* the snapshot scores saved: 40.0 and 43.0, so that two snapshots are 3.0
\* apart or equal
InsightSnapshotScores == {400, 430}

\* the headlines saved: one title, read as good or as bad news
InsightHeadlines ==
    {Headline(KeywordTitleRally, POSITIVE), Headline(KeywordTitleRally, NEGATIVE)}

\* snapshots saved, headlines saved, hours passed
InsightEvents ==
    Len(sentiment_history) + Len(headlines_history) + (now \div HOUR)

InitInsights ==
    /\ pc = "collect"
    /\ scores = <<>> /\ agg = None
    /\ bull_count = 0 /\ bear_count = 0
    /\ polarity_score = calculate_polarity_score(0, 0)
    /\ IdleService

\* a collection cycle saves the snapshot of the region
InsightSaveSnapshot ==
    /\ pc \in {"collect", "again"}
    /\ InsightEvents < MaxEvents
    /\ \E score \in InsightSnapshotScores :
          sentiment_history' =
              save_sentiment_snapshot(sentiment_history, now, "egypt", score,
                                      overall_label(score), 1, 0, 0, 0)
    /\ UNCHANGED <<pc, agg_vars, model_loaded, feed, cache, headlines_history,
                   now, request, response, qry_vars, ins_vars, thr_vars>>

\* a collection cycle saves a headline of the region
InsightSaveHeadline ==
    /\ pc \in {"collect", "again"}
    /\ InsightEvents < MaxEvents
    /\ \E headline \in InsightHeadlines :
          headlines_history' =
              save_headlines_batch(headlines_history, now, "egypt",
                                   <<headline>>)
    /\ UNCHANGED <<pc, agg_vars, model_loaded, feed, cache, sentiment_history,
                   now, request, response, qry_vars, ins_vars, thr_vars>>

\* an hour passes
InsightTick ==
    /\ pc \in {"collect", "again"}
    /\ InsightEvents < MaxEvents
    /\ now' = now + HOUR
    /\ UNCHANGED <<pc, agg_vars, model_loaded, feed, cache, sentiment_history,
                   headlines_history, request, response, qry_vars, ins_vars, thr_vars>>

\* one call of generate_insights; the call before it is kept for comparison
InsightsCall(region_id, current_score, headline_count, plan) ==
    LET out == generate_insights(sentiment_history, headlines_history, now,
                                 plan, region_id, current_score,
                                 overall_label(current_score), headline_count)
    IN  /\ request' = [region_id |-> region_id,
                       current_score |-> current_score,
                       headline_count |-> headline_count]
        /\ db_queries' = out.queries
        /\ trend_info' = out.trend_info
        /\ keyword_rows' = out.rows
        /\ top_keywords' = out.keywords
        /\ insights' = out.insights
        /\ earlier_call' =
               IF request = None THEN None
               ELSE [request |-> request, trend_info |-> trend_info,
                     keywords |-> top_keywords, insights |-> insights]

GenerateInsights ==
    /\ pc = "collect"
    /\ \E region_id \in InsightRegions, current_score \in CurrentScores,
          headline_count \in HeadlineCounts, plan \in QueryPlans :
          InsightsCall(region_id, current_score, headline_count, plan)
    /\ pc' = "called"
    /\ UNCHANGED <<agg_vars, model_loaded, feed, cache, sentiment_history,
                   headlines_history, now, response, thr_vars>>

NextInsights ==
    \/ InsightSaveSnapshot
    \/ InsightSaveHeadline
    \/ InsightTick
    \/ GenerateInsights

SpecInsights == InitInsights /\ [][NextInsights]_vars

\* the first of two calls for the region with history
GenerateInsightsFirst ==
    /\ pc = "collect"
    /\ \E current_score \in {600, 601}, plan \in QueryPlans :
          InsightsCall("egypt", current_score, 21, plan)
    /\ pc' = "again"
    /\ UNCHANGED <<agg_vars, model_loaded, feed, cache, sentiment_history,
                   headlines_history, now, response, thr_vars>>

\* the same call again
GenerateInsightsAgain ==
    /\ pc = "again"
    /\ \E plan \in QueryPlans :
          InsightsCall(request.region_id, request.current_score,
                       request.headline_count, plan)
    /\ pc' = "called"
    /\ UNCHANGED <<agg_vars, model_loaded, feed, cache, sentiment_history,
                   headlines_history, now, response, thr_vars>>

NextInsightsRepeat ==
    \/ InsightSaveSnapshot
    \/ InsightSaveHeadline
    \/ InsightTick
    \/ GenerateInsightsFirst
    \/ GenerateInsightsAgain

SpecInsightsRepeat == InitInsights /\ [][NextInsightsRepeat]_vars

-----------------------------------------------------------------------------
(* Specification SpecCache: the service under requests.  The event loop    *)
(* runs GET /api/regions/{region_id}, POST /api/refresh and POST           *)
(* /api/collect one at a time; the background task of /api/collect runs on *)
(* a pool thread, its steps interleaved with those of the event loop.      *)

\* REGIONS.keys(), in the order of the dict
RegionOrder == <<"global", "us", "eu", "africa", "egypt", "saudi", "middleeast">>

\* the region ids requested: a region, and one that does not exist
ServiceRegions == {"global", "mars"}

\* what the sources return: good news, or bad news
ServiceBatches == {<<RawBull>>, <<RawBear>>}

\* the clock advances by half the time-to-live
TickSeconds == CACHE_TTL \div 2

\* the requests accepted and the clock steps taken so far
ServiceEvents == handled + (now \div TickSeconds)

InitCache ==
    /\ pc = "serving"
    /\ model_loaded = TRUE
    /\ \E batch \in ServiceBatches : feed = [r \in SCRAPERS |-> batch]
    /\ cache = <<>>
    /\ sentiment_history = <<>>
    /\ headlines_history = <<>>
    /\ now = 0
    /\ request = None
    /\ response = None
    /\ trend_info = None
    /\ keyword_rows = <<>>
    /\ top_keywords = <<>>
    /\ insights = <<>>
    /\ db_queries = <<>>
    /\ earlier_call = None
    /\ thread = [t \in Threads |-> IdleThread]
    /\ put_log = <<>>
    /\ handled = 0
    /\ scores = <<>> /\ agg = None
    /\ bull_count = 0 /\ bear_count = 0
    /\ polarity_score = calculate_polarity_score(0, 0)

\* process_region returns or raises in thread t: get_region answers and the
\* event loop is free again; collect_all logs and goes on to the next region
\* (from_cache records that the value comes from line 105)
Finish(t, result, from_cache) ==
    thread' = [thread EXCEPT ![t] =
                  IF thread[t].handler = "collect_all"
                  THEN [@ EXCEPT !.pc = "next", !.rs = None, !.ret = result,
                                 !.from_cache = from_cache,
                                 !.refreshed = "none"]
                  ELSE [IdleThread EXCEPT !.ret = result,
                                          !.region_id = thread[t].region_id,
                                          !.from_cache = from_cache]]

\* GET /api/regions/{region_id}
GetRegion ==
    /\ thread["loop"].pc = "idle"
    /\ ServiceEvents < MaxRequests
    /\ handled' = handled + 1
    /\ \E region_id \in ServiceRegions :
          thread' = [thread EXCEPT !["loop"] =
              IF region_id \notin REGIONS
              THEN [IdleThread EXCEPT !.ret = [ok |-> FALSE, error |-> "404"]]
              ELSE [IdleThread EXCEPT !.pc = "check",
                                      !.handler = "get_region",
                                      !.region_id = region_id,
                                      !.save_to_db = TRUE]]
    /\ UNCHANGED <<pc, agg_vars, svc_vars, qry_vars, ins_vars, put_log>>

\* POST /api/refresh: cache.clear() begins
RefreshCache ==
    /\ thread["loop"].pc = "idle"
    /\ ServiceEvents < MaxRequests
    /\ handled' = handled + 1
    /\ thread' = [thread EXCEPT
                     !["loop"] = [IdleThread EXCEPT
                                     !.pc = "clearing",
                                     !.handler = "refresh_cache"],
                     !["worker"].refreshed =
                         IF thread["worker"].pc
                               \in {"save_snapshot", "save_headlines", "put"}
                         THEN "begun" ELSE @]
    /\ UNCHANGED <<pc, agg_vars, svc_vars, qry_vars, ins_vars, put_log>>

\* cache.clear() is "pop items until popitem raises KeyError"
ClearStep ==
    /\ thread["loop"].pc = "clearing"
    /\ \E popped \in cache_popitem(cache, now) :
          /\ cache' = popped.cache
          /\ thread' = IF popped.ok
                       THEN thread
                       ELSE [thread EXCEPT
                                !["loop"] =
                                    [IdleThread EXCEPT
                                        !.ret = [ok |-> TRUE,
                                                 value |-> "Cache cleared"]],
                                !["worker"].refreshed =
                                    IF @ = "begun" THEN "done" ELSE @]
    /\ UNCHANGED <<pc, agg_vars, model_loaded, feed, sentiment_history,
                   headlines_history, now, request, response, qry_vars,
                   ins_vars, put_log, handled>>

\* POST /api/collect: collect_all is handed to a pool thread (one such task
\* at a time here, over the first MaxCollected regions)
TriggerCollection ==
    /\ thread["loop"].pc = "idle"
    /\ thread["worker"].pc = "idle"
    /\ ServiceEvents < MaxRequests
    /\ handled' = handled + 1
    /\ thread' = [thread EXCEPT
                     !["loop"] = [IdleThread EXCEPT
                                     !.ret = [ok |-> TRUE,
                                              value |-> "Data collection started in background"]],
                     !["worker"] = [IdleThread EXCEPT
                                       !.pc = "next",
                                       !.handler = "collect_all",
                                       !.todo = SubSeq(RegionOrder, 1,
                                                       MaxCollected)]]
    /\ UNCHANGED <<pc, agg_vars, svc_vars, qry_vars, ins_vars, put_log>>

\* collect_all: for region_id in REGIONS.keys()
CollectNext ==
    /\ thread["worker"].pc = "next"
    /\ thread' = [thread EXCEPT !["worker"] =
                     IF thread["worker"].todo = <<>>
                     THEN [IdleThread EXCEPT !.ret = thread["worker"].ret]
                     ELSE [@ EXCEPT !.pc = "check",
                                    !.ret = None,
                                    !.from_cache = FALSE,
                                    !.region_id = Head(thread["worker"].todo),
                                    !.save_to_db = TRUE,
                                    !.todo = Tail(thread["worker"].todo)]]
    /\ UNCHANGED <<pc, agg_vars, svc_vars, qry_vars, ins_vars, put_log,
                   handled>>

\* process_region, line 104: if cache_key in cache
CacheCheck(t) ==
    /\ thread[t].pc = "check"
    /\ thread' = [thread EXCEPT ![t].pc =
                     IF cache_contains(cache, cache_key(thread[t].region_id),
                                       now)
                     THEN "read" ELSE "fetch"]
    /\ UNCHANGED <<pc, agg_vars, svc_vars, qry_vars, ins_vars, put_log,
                   handled>>

\* process_region, line 105: return cache[cache_key]
CacheRead(t) ==
    /\ thread[t].pc = "read"
    /\ LET item == cache_getitem(cache, cache_key(thread[t].region_id), now)
       IN  Finish(t, item, item.ok)
    /\ UNCHANGED <<pc, agg_vars, svc_vars, qry_vars, ins_vars, put_log,
                   handled>>

\* process_region, lines 107 to 173: fetch, filter, classify, aggregate
FetchAndAggregate(t) ==
    /\ thread[t].pc = "fetch"
    /\ LET region_id == thread[t].region_id
       IN  IF region_id \notin SCRAPERS
           THEN Finish(t, [ok |-> FALSE, error |-> "ValueError"], FALSE)
           ELSE LET rs == region_sentiment(region_id, feed[region_id],
                                           model_loaded, now)
                IN  thread' = [thread EXCEPT
                        ![t].rs = rs,
                        ![t].pc = IF thread[t].save_to_db
                                        /\ rs.headline_count > 0
                                  THEN "save_snapshot" ELSE "put"]
    /\ UNCHANGED <<pc, agg_vars, svc_vars, qry_vars, ins_vars, put_log,
                   handled>>

\* process_region, line 178
SaveSnapshot(t) ==
    /\ thread[t].pc = "save_snapshot"
    /\ LET rs == thread[t].rs
       IN  sentiment_history' =
               save_sentiment_snapshot(sentiment_history, now, rs.region_id,
                                       rs.sentiment_score, rs.sentiment_label,
                                       rs.headline_count, 0, 0, 0)
    /\ thread' = [thread EXCEPT ![t].pc = "save_headlines"]
    /\ UNCHANGED <<pc, agg_vars, model_loaded, feed, cache, headlines_history,
                   now, request, response, qry_vars, ins_vars, put_log,
                   handled>>

\* process_region, line 179
SaveHeadlines(t) ==
    /\ thread[t].pc = "save_headlines"
    /\ LET rs == thread[t].rs
       IN  headlines_history' =
               save_headlines_batch(headlines_history, now, rs.region_id,
                                    rs.headlines_for_db)
    /\ thread' = [thread EXCEPT ![t].pc = "put"]
    /\ UNCHANGED <<pc, agg_vars, model_loaded, feed, cache, sentiment_history,
                   now, request, response, qry_vars, ins_vars, put_log,
                   handled>>

\* process_region, lines 184 to 186: cache[cache_key] = region_sentiment
CachePut(t) ==
    /\ thread[t].pc = "put"
    /\ LET key   == cache_key(thread[t].region_id)
           value == Returned(thread[t].rs)
       IN  /\ cache' = cache_setitem(cache, key, value, now)
           /\ put_log' = [k \in DOMAIN put_log \cup {key} |->
                             IF k = key
                             THEN [value |-> value, at |-> now,
                                   refreshed |->
                                       thread[t].refreshed = "done"]
                             ELSE put_log[k]]
           /\ Finish(t, [ok |-> TRUE, value |-> value], FALSE)
    /\ UNCHANGED <<pc, agg_vars, model_loaded, feed, sentiment_history,
                   headlines_history, now, request, response, qry_vars,
                   ins_vars, handled>>

\* time passes, and the news changes with it
CacheTick ==
    /\ ServiceEvents < MaxRequests
    /\ now' = now + TickSeconds
    /\ \E batch \in ServiceBatches :
          /\ feed # [r \in SCRAPERS |-> batch]
          /\ feed' = [r \in SCRAPERS |-> batch]
    /\ UNCHANGED <<pc, agg_vars, model_loaded, cache, sentiment_history,
                   headlines_history, request, response, qry_vars, ins_vars,
                   thr_vars>>

NextCache ==
    \/ GetRegion
    \/ RefreshCache
    \/ ClearStep
    \/ TriggerCollection
    \/ CollectNext
    \/ \E t \in Threads :
          \/ CacheCheck(t)
          \/ CacheRead(t)
          \/ FetchAndAggregate(t)
          \/ SaveSnapshot(t)
          \/ SaveHeadlines(t)
          \/ CachePut(t)
    \/ CacheTick

SpecCache == InitCache /\ [][NextCache]_vars

-----------------------------------------------------------------------------
(* Specification SpecNoise: is_noise applied to one text.                  *)

\* what may stand before and after a marker in a headline: nothing, a
\* separator, or a letter that makes the marker part of a longer word
NoisePrefixes == {<<>>, <<" ">>, <<"r", "e">>, <<"U", "S", ":", " ">>}
NoiseSuffixes == {<<>>, <<" ">>, <<"s">>, <<":", " ", "r", "a", "t", "e", "s">>}

\* every marker, in lower case, in upper case and capitalised
NoiseMarkers ==
    UNION {{NOISE_KEYWORDS[n], upper(NOISE_KEYWORDS[n]),
            str_title(NOISE_KEYWORDS[n])} : n \in DOMAIN NOISE_KEYWORDS}

\* texts of white space only, the empty text among them
BlankTexts == {<<>>, <<" ">>, <<" ", " ", " ">>, <<"\t">>, <<" ", "\n">>}

\* the texts is_noise is applied to
NoiseTexts ==
    {pre \o marker \o post :
        pre \in NoisePrefixes, marker \in NoiseMarkers, post \in NoiseSuffixes}
    \cup BlankTexts
    \cup {TitleRally, TitleTumble, TitleHolds, TitleOpinion, TitleOil}

InitNoise ==
    /\ pc = "text"
    /\ IdleService
    /\ scores = <<>> /\ agg = None
    /\ bull_count = 0 /\ bear_count = 0
    /\ polarity_score = calculate_polarity_score(0, 0)

\* sentiment_analyzer.is_noise(text)
IsNoise ==
    /\ pc = "text"
    /\ pc' = "judged"
    /\ \E text \in NoiseTexts :
          /\ request' = text
          /\ response' = is_noise(text)
    /\ UNCHANGED <<agg_vars, model_loaded, feed, cache, sentiment_history,
                   headlines_history, now, qry_vars, ins_vars, thr_vars>>

NextNoise == IsNoise

SpecNoise == InitNoise /\ [][NextNoise]_vars

-----------------------------------------------------------------------------
(* Specification SpecCollect: one collection of fetched headlines, by      *)
(* process_region, by the task collect_region_data, or by                  *)
(* run_collection_now over all regions.                                    *)

CollectRegions == {"global", "egypt"}

InitCollect ==
    /\ pc = "collect"
    /\ model_loaded \in BOOLEAN
    /\ \E batch \in SeqsUpTo(RawPool, MaxBatch) :
          feed = [r \in SCRAPERS |-> batch]
    /\ cache = <<>>
    /\ sentiment_history = <<>>
    /\ headlines_history = <<>>
    /\ now = 0
    /\ request = None
    /\ response = None
    /\ trend_info = None
    /\ keyword_rows = <<>>
    /\ top_keywords = <<>>
    /\ insights = <<>>
    /\ db_queries = <<>>
    /\ earlier_call = None
    /\ thread = [t \in Threads |-> IdleThread]
    /\ put_log = <<>>
    /\ handled = 0
    /\ scores = <<>> /\ agg = None
    /\ bull_count = 0 /\ bear_count = 0
    /\ polarity_score = calculate_polarity_score(0, 0)

\* process_region(region_id, save_to_db=True)
CollectProcessRegion ==
    /\ pc = "collect"
    /\ pc' = "collected"
    /\ \E region_id \in CollectRegions :
          /\ request' = [path |-> "process_region",
                         regions |-> <<region_id>>]
          /\ ProcessRegion(region_id, TRUE)
    /\ UNCHANGED <<model_loaded, feed, now, agg_vars, qry_vars, ins_vars,
                   thr_vars>>

\* the task collect_region_data(region_id, region_name)
CollectRegionData ==
    /\ pc = "collect"
    /\ pc' = "collected"
    /\ \E region_id \in CollectRegions :
          LET collected == collect_region(region_id, feed[region_id],
                                          model_loaded)
          IN  /\ request' = [path |-> "collect_region_data",
                             regions |-> <<region_id>>]
              /\ sentiment_history' =
                     collect_save_snapshot(sentiment_history, now, collected)
              /\ headlines_history' =
                     collect_save_headlines(headlines_history, now, collected)
              /\ response' = <<collected>>
    /\ UNCHANGED <<model_loaded, feed, cache, now, agg_vars, qry_vars,
                   ins_vars, thr_vars>>

\* run_collection_now()
RunCollectionNow ==
    /\ pc = "collect"
    /\ pc' = "collected"
    /\ LET tables == run_collection(
                         RegionOrder, feed, model_loaded, now,
                         [sentiment_history |-> sentiment_history,
                          headlines_history |-> headlines_history,
                          outcomes |-> <<>>])
       IN  /\ request' = [path |-> "run_collection_now",
                          regions |-> RegionOrder]
           /\ sentiment_history' = tables.sentiment_history
           /\ headlines_history' = tables.headlines_history
           /\ response' = tables.outcomes
    /\ UNCHANGED <<model_loaded, feed, cache, now, agg_vars, qry_vars,
                   ins_vars, thr_vars>>

NextCollect ==
    \/ CollectProcessRegion
    \/ CollectRegionData
    \/ RunCollectionNow

SpecCollect == InitCollect /\ [][NextCollect]_vars

-----------------------------------------------------------------------------
(* Specification SpecEndpoints: two requests, one after the other, to a    *)
(* service that has just started: process_region as the callers of the     *)
(* core use it, or one of the region, trend and insights endpoints.        *)

\* what every region's source returns: nothing, one headline, or a
\* headline and a noise headline
EndpointBatches == {<<>>, <<RawBull>>, <<RawBear, RawNoise>>}

\* the service state the handlers work on
ServiceState ==
    [cache             |-> cache,
     sentiment_history |-> sentiment_history,
     headlines_history |-> headlines_history]

InitEndpoints ==
    /\ pc = "first"
    /\ model_loaded = TRUE
    /\ \E batch \in EndpointBatches : feed = [r \in SCRAPERS |-> batch]
    /\ cache = <<>>
    /\ sentiment_history = <<>>
    /\ headlines_history = <<>>
    /\ now = 0
    /\ request = None
    /\ response = None
    /\ trend_info = None
    /\ keyword_rows = <<>>
    /\ top_keywords = <<>>
    /\ insights = <<>>
    /\ db_queries = <<>>
    /\ earlier_call = None
    /\ thread = [t \in Threads |-> IdleThread]
    /\ put_log = <<>>
    /\ handled = 0
    /\ scores = <<>> /\ agg = None
    /\ bull_count = 0 /\ bear_count = 0
    /\ polarity_score = calculate_polarity_score(0, 0)

\* the request is answered with out: its response, and the state it leaves
Answer(out) ==
    /\ pc \in {"first", "second"}
    /\ pc' = IF pc = "first" THEN "second" ELSE "done"
    /\ cache' = out.cache
    /\ sentiment_history' = out.sentiment_history
    /\ headlines_history' = out.headlines_history
    /\ response' = out.response
    /\ UNCHANGED <<agg_vars, model_loaded, feed, now, qry_vars, ins_vars,
                   thr_vars>>

\* a direct call process_region(region_id, save_to_db)
CallProcessRegion ==
    \E region_id \in RequestRegions, save_to_db \in BOOLEAN :
        \E out \in {process_region(ServiceState, feed, model_loaded, now,
                                   region_id, save_to_db)} :
            /\ request' = [call |-> "process_region", region_id |-> region_id,
                           save_to_db |-> save_to_db]
            /\ Answer([cache             |-> out.cache,
                       sentiment_history |-> out.sentiment_history,
                       headlines_history |-> out.headlines_history,
                       response          |-> out.result])

CallGetRegion ==
    \E region_id \in RequestRegions :
        /\ request' = [call |-> "get_region", region_id |-> region_id,
                       save_to_db |-> TRUE]
        /\ \E out \in {get_region(ServiceState, feed, model_loaded, now,
                                   region_id)} : Answer(out)

CallGetRegionTrend ==
    \E region_id \in RequestRegions :
        /\ request' = [call |-> "get_region_trend", region_id |-> region_id,
                       save_to_db |-> FALSE]
        /\ \E out \in {get_region_trend(ServiceState, now, region_id, 24)} :
              Answer(out)

CallGetRegionInsights ==
    \E region_id \in RequestRegions :
        /\ request' = [call |-> "get_region_insights",
                       region_id |-> region_id, save_to_db |-> FALSE]
        /\ \E out \in {get_region_insights(ServiceState, feed, model_loaded,
                                            now, region_id, "table")} :
              Answer(out)

NextEndpoints ==
    \/ CallProcessRegion
    \/ CallGetRegion
    \/ CallGetRegionTrend
    \/ CallGetRegionInsights

SpecEndpoints == InitEndpoints /\ [][NextEndpoints]_vars

-----------------------------------------------------------------------------
(* Specification SpecBulk: one bulk operation over the regions, by          *)
(* get_all_regions, by the background task of /api/collect, by              *)
(* collect_all_regions or by run_collection_now, while the processing of   *)
(* some regions raises.                                                    *)

BulkPaths == {"get_all_regions", "collect_all", "collect_all_regions",
              "run_collection_now"}

InitBulk ==
    /\ InitEndpoints

\* the bulk operation path, the regions of failing raising
BulkOperation ==
    /\ pc = "first"
    /\ pc' = "bulk_done"
    /\ \E path \in BulkPaths, failing \in SUBSET REGIONS :
          \E start \in {[cache             |-> cache,
                         sentiment_history |-> sentiment_history,
                         headlines_history |-> headlines_history,
                         attempted |-> <<>>, data |-> <<>>,
                         errors |-> <<>>]} :
          \E out \in {IF path \in {"get_all_regions", "collect_all"}
                      THEN for_process_region(RegionOrder, feed,
                                              model_loaded, now, failing,
                                              start)
                      ELSE for_collect_region(RegionOrder, feed,
                                              model_loaded, now, failing,
                                              start)} :
              /\ request' = [path |-> path, failing |-> failing]
              /\ cache' = out.cache
              /\ sentiment_history' = out.sentiment_history
              /\ headlines_history' = out.headlines_history
              /\ response' = [attempted |-> out.attempted,
                              data      |-> out.data,
                              errors    |-> out.errors]
    /\ UNCHANGED <<agg_vars, model_loaded, feed, now, qry_vars, ins_vars,
                   thr_vars>>

NextBulk == BulkOperation

SpecBulk == InitBulk /\ [][NextBulk]_vars

-----------------------------------------------------------------------------
(* Specification SpecTrendRace: GET /api/regions/{region_id}/trend reads   *)
(* the history twice, by get_trend_data and then by get_sentiment_change,  *)
(* each on a connection of its own, while the collection running in the    *)
(* thread pool or in the task worker saves snapshots.                      *)

RaceRegions == {"egypt", "us"}

\* polarity scores in tenths: 40.0 and 45.0
RaceScores == {400, 450}

InitTrendRace ==
    /\ pc = "serving"
    /\ scores = <<>> /\ agg = None
    /\ bull_count = 0 /\ bear_count = 0
    /\ polarity_score = calculate_polarity_score(0, 0)
    /\ IdleService

\* GET /api/regions/{region_id}/trend is accepted (hours is the default)
RaceGetRegionTrend ==
    /\ thread["loop"].pc = "idle"
    /\ handled < MaxRequests
    /\ handled' = handled + 1
    /\ \E region_id \in RaceRegions :
          /\ request' = [region_id |-> region_id, hours |-> 24]
          /\ thread' = [thread EXCEPT !["loop"] =
                           [IdleThread EXCEPT
                               !.pc = "get_trend_data",
                               !.handler = "get_region_trend",
                               !.region_id = region_id]]
    /\ UNCHANGED <<pc, agg_vars, model_loaded, feed, cache, sentiment_history,
                   headlines_history, now, response, qry_vars, ins_vars,
                   put_log>>

\* get_region_trend, line 301: trend_data = get_trend_data(region_id, hours)
RaceTrendData ==
    /\ thread["loop"].pc = "get_trend_data"
    /\ thread' = [thread EXCEPT
                     !["loop"].rs = get_trend_data(sentiment_history, now,
                                                   request.region_id,
                                                   request.hours),
                     !["loop"].pc = "get_sentiment_change"]
    /\ UNCHANGED <<pc, agg_vars, svc_vars, qry_vars, ins_vars, put_log,
                   handled>>

\* get_region_trend, lines 302 to 311: trend_info = get_sentiment_change(
\* region_id, hours), and the TrendResponse built from both
RaceSentimentChange ==
    /\ thread["loop"].pc = "get_sentiment_change"
    /\ LET trend_data == thread["loop"].rs
           info == get_sentiment_change(sentiment_history, now,
                                        request.region_id, request.hours)
       IN  /\ trend_info' = info
           /\ response' = [status |-> 200, success |-> TRUE,
                           region_id |-> request.region_id,
                           trend |-> info.trend,
                           change |-> info.change,
                           data_points |-> Len(trend_data),
                           data |-> trend_data]
           /\ thread' = [thread EXCEPT !["loop"] =
                            [IdleThread EXCEPT
                                !.region_id = request.region_id]]
    /\ UNCHANGED <<pc, agg_vars, model_loaded, feed, cache, sentiment_history,
                   headlines_history, now, request, keyword_rows,
                   top_keywords, ins_vars, put_log, handled>>

\* a collection running beside the event loop saves the snapshot of a region
RaceSave ==
    /\ Len(sentiment_history) < MaxSnapshots
    /\ \E region_id \in RaceRegions, score \in RaceScores :
          sentiment_history' =
              save_sentiment_snapshot(sentiment_history, now, region_id,
                                      score, overall_label(score), 1, 0, 0, 0)
    /\ UNCHANGED <<pc, agg_vars, model_loaded, feed, cache, headlines_history,
                   now, request, response, qry_vars, ins_vars, thr_vars>>

\* an hour passes between two requests
RaceTick ==
    /\ thread["loop"].pc = "idle"
    /\ now < MaxHours * HOUR
    /\ now' = now + HOUR
    /\ UNCHANGED <<pc, agg_vars, model_loaded, feed, cache, sentiment_history,
                   headlines_history, request, response, qry_vars, ins_vars,
                   thr_vars>>

NextTrendRace ==
    \/ RaceGetRegionTrend
    \/ RaceTrendData
    \/ RaceSentimentChange
    \/ RaceSave
    \/ RaceTick

SpecTrendRace == InitTrendRace /\ [][NextTrendRace]_vars

-----------------------------------------------------------------------------
(* Claims about the polarity aggregator *)

\* the polarity score the returned counts stand for
AggPolarity == calculate_polarity_score(agg.counts.bull_count,
                                        agg.counts.bear_count)

\* C1: after aggregate_sentiment(S), bull_count + bear_count + neutral_count
\* equals len(S): every score lands in exactly one bucket.
C1_CountsSumToLen ==
    pc = "done" =>
        agg.counts.bull_count + agg.counts.bear_count
            + agg.counts.neutral_count = Len(scores)

C1_Witness ==
    /\ pc = "done"
    /\ agg.counts.bull_count > 0
    /\ agg.counts.bear_count > 0
    /\ agg.counts.neutral_count > 0

\* C2: when no score was bucketed bull or bear (the empty sequence and the
\* all-neutral sequences), the polarity score is 50.0, the normalized score
\* is 0.0 and the label is neutral; for the empty sequence all counts are 0
\* and the call returns a result.
C2_NoSignalIsNeutral ==
    pc = "done" =>
        /\ "counts" \in DOMAIN agg
        /\ (agg.counts.bull_count + agg.counts.bear_count = 0 =>
                /\ AggPolarity = 500
                /\ agg.normalized = 0
                /\ agg.label = NEUTRAL)
        /\ (scores = <<>> =>
                /\ agg.counts.bull_count = 0
                /\ agg.counts.bear_count = 0
                /\ agg.counts.neutral_count = 0)

C2_Witness ==
    /\ pc = "done"
    /\ Len(scores) >= 2
    /\ agg.counts.bull_count + agg.counts.bear_count = 0
    /\ agg.counts.neutral_count = Len(scores)

\* C3: calculate_polarity_score never decreases when a bull headline is
\* added, never increases when a bear headline is added, stays within
\* [0, 100], and is 50.0 for bull = bear = 0.
C3_PolarityMonotoneBounded ==
    /\ [](pc = "polarity" =>
            /\ polarity_score \in 0..1000
            /\ (bull_count = 0 /\ bear_count = 0 => polarity_score = 500))
    /\ [][pc = "polarity" =>
            /\ (bull_count' = bull_count + 1 /\ bear_count' = bear_count
                    => polarity_score' >= polarity_score)
            /\ (bear_count' = bear_count + 1 /\ bull_count' = bull_count
                    => polarity_score' <= polarity_score)]_vars

C3_Witness ==
    /\ pc = "polarity"
    /\ bull_count = 2
    /\ bear_count = 1
    /\ polarity_score = 667

\* C5: the label of aggregate_sentiment is positive iff the polarity score
\* is above 55, negative iff it is below 45, and neutral on the closed band
\* [45, 55].
C5_LabelBand ==
    pc = "done" =>
        /\ (agg.label = POSITIVE <=> AggPolarity > 550)
        /\ (agg.label = NEGATIVE <=> AggPolarity < 450)
        /\ (agg.label = NEUTRAL  <=> (AggPolarity >= 450 /\ AggPolarity <= 550))

C5_Witness ==
    /\ pc = "done"
    /\ agg.counts.bull_count = 11
    /\ agg.counts.bear_count = 9
    /\ AggPolarity = 550
    /\ agg.label = NEUTRAL

\* C6: the bucketing of aggregate_sentiment uses the exposed thresholds: a
\* score is bull iff it exceeds BULL_THRESHOLD and bear iff it is below
\* -BEAR_THRESHOLD.
C6_ExposedThresholdsApplied ==
    pc = "done" =>
        /\ agg.counts.bull_count =
              Cardinality({i \in DOMAIN scores : scores[i] > BULL_THRESHOLD})
        /\ agg.counts.bear_count =
              Cardinality({i \in DOMAIN scores : scores[i] < -BEAR_THRESHOLD})

-----------------------------------------------------------------------------
(* Claims about process_region *)

\* the last call returned a region aggregate
Answered == pc \in {"second", "done"} /\ response.ok

\* C4: whenever a batch has bull + bear > 0, the polarity score published in
\* the region aggregate is bull / (bull + bear) * 100 rounded to one decimal,
\* neutral headlines staying out of the denominator; 6 bull, 3 bear and
\* 1 neutral publish 66.7 with the label positive.
C4_PublishedPolarity ==
    Answered =>
        LET v == response.value
        IN  /\ (v.bull_count + v.bear_count > 0 =>
                  v.sentiment_score =
                      RoundHalfEven(v.bull_count * 1000,
                                    v.bull_count + v.bear_count))
            /\ (v.bull_count = 6 /\ v.bear_count = 3 /\ v.neutral_count = 1 =>
                  v.sentiment_score = 667 /\ v.sentiment_label = POSITIVE)

C4_Witness ==
    /\ Answered
    /\ response.value.bull_count = 6
    /\ response.value.bear_count = 3
    /\ response.value.neutral_count = 1
    /\ response.value.headline_count = 10
    /\ response.value.sentiment_score = 667

-----------------------------------------------------------------------------
(* Claims about the trend analyzer *)

\* the rows of the queried region inside the queried lookback window
WindowRows ==
    {i \in DOMAIN sentiment_history :
        /\ sentiment_history[i].region_id = request.region_id
        /\ sentiment_history[i].recorded_at >= now - request.hours * HOUR}

\* the oldest and the newest of them
OldestRow ==
    sentiment_history[CHOOSE i \in WindowRows : \A j \in WindowRows :
        sentiment_history[i].recorded_at <= sentiment_history[j].recorded_at]
NewestRow ==
    sentiment_history[CHOOSE i \in WindowRows : \A j \in WindowRows :
        sentiment_history[i].recorded_at >= sentiment_history[j].recorded_at]

\* C7: with zero or one snapshot in the lookback window get_sentiment_change
\* returns change 0, trend stable and data_points equal to the number of
\* snapshots in the window.
C7_ShortHistoryIsStable ==
    (pc = "queried" /\ Cardinality(WindowRows) < 2) =>
        trend_info = [change |-> 0, trend |-> "stable",
                      data_points |-> Cardinality(WindowRows)]

C7_Witness ==
    /\ pc = "queried"
    /\ Cardinality(WindowRows) = 1
    /\ Len(sentiment_history) = 3
    /\ trend_info.data_points = 1

-----------------------------------------------------------------------------
(* Claims about the keyword extractor *)

\* the tokens of each fetched row: its title, lowercased, split on
\* whitespace
FetchedTokens ==
    [i \in DOMAIN keyword_rows |-> split(lower(keyword_rows[i].title))]

\* where word occurs in the token table: <<row, position in the row>>
Occurrences(tokens, word) ==
    UNION {{<<i, j>> : j \in {n \in DOMAIN tokens[i] : tokens[i][n] = word}} :
              i \in DOMAIN tokens}

\* every token of the table
AllTokens(tokens) == UNION {Range(tokens[i]) : i \in DOMAIN tokens}

\* o comes before p in the token stream
Before(o, p) == o[1] < p[1] \/ (o[1] = p[1] /\ o[2] < p[2])

\* word v is first encountered before word w
FirstEncounteredBefore(tokens, v, w) ==
    \E o \in Occurrences(tokens, v) :
        \A p \in Occurrences(tokens, w) : Before(o, p)

ReturnedWords == {top_keywords[k].word : k \in DOMAIN top_keywords}

\* C9: every KeywordStat returned has a lowercase word of length 5 or more
\* and positive + negative + neutral = count, the counts being those of the
\* word's occurrences in the fetched headlines; a token of 5 characters is
\* retained (it is returned unless the limit cut it off), a token of 4 or
\* fewer is never returned.
C9_KeywordStats ==
    pc = "queried" =>
        LET tokens == FetchedTokens
        IN  /\ \A k \in DOMAIN top_keywords :
                  LET stat == top_keywords[k]
                      seen == Occurrences(tokens, stat.word)
                      Labelled(label) ==
                          {o \in seen :
                              keyword_rows[o[1]].sentiment_label = label}
                  IN  /\ stat.word = lower(stat.word)
                      /\ Len(stat.word) >= 5
                      /\ stat.positive + stat.negative + stat.neutral
                             = stat.count
                      /\ stat.count = Cardinality(seen)
                      /\ stat.positive = Cardinality(Labelled(POSITIVE))
                      /\ stat.negative = Cardinality(Labelled(NEGATIVE))
                      /\ stat.neutral = Cardinality(Labelled(NEUTRAL))
            /\ \A word \in AllTokens(tokens) :
                  /\ Len(word) <= 4 => word \notin ReturnedWords
                  /\ (Len(word) >= 5 /\ Len(top_keywords) < request.limit)
                        => word \in ReturnedWords

C9_Witness ==
    /\ pc = "queried"
    /\ request.limit = 5
    /\ <<"r", "a", "t", "e">> \in AllTokens(FetchedTokens)
    /\ \E k \in DOMAIN top_keywords :
          /\ top_keywords[k].word = <<"r", "a", "l", "l", "y">>
          /\ top_keywords[k].count = 2
          /\ top_keywords[k].positive = 1
          /\ top_keywords[k].negative = 1

\* C10: get_top_keywords returns at most limit entries, in descending order
\* of count, entries of equal count in the order their words were first
\* encountered in the fetched headlines, and no keyword left out has a
\* strictly larger count than a returned one.
C10_TopKeywordsOrder ==
    pc = "queried" =>
        LET tokens == FetchedTokens
        IN  /\ Len(top_keywords) <= request.limit
            /\ \A i, j \in DOMAIN top_keywords :
                  i < j =>
                      /\ top_keywords[i].count >= top_keywords[j].count
                      /\ top_keywords[i].count = top_keywords[j].count
                            => FirstEncounteredBefore(tokens,
                                                      top_keywords[i].word,
                                                      top_keywords[j].word)
            /\ \A word \in AllTokens(tokens) :
                  (Len(word) > 4 /\ word \notin ReturnedWords) =>
                      \A k \in DOMAIN top_keywords :
                          Cardinality(Occurrences(tokens, word))
                              <= top_keywords[k].count

C10_Witness ==
    /\ pc = "queried"
    /\ request.limit = 5
    /\ Len(top_keywords) = 3
    /\ top_keywords[1].count = 2
    /\ top_keywords[2].count = 1
    /\ top_keywords[3].count = 1
    /\ LET tokens == FetchedTokens
       IN  /\ FirstEncounteredBefore(tokens, top_keywords[2].word,
                                     top_keywords[1].word)
           /\ FirstEncounteredBefore(tokens, top_keywords[2].word,
                                     top_keywords[3].word)

-----------------------------------------------------------------------------
(* Claims about the insight rule engine *)

\* the titles of the cards returned, in order
CardTitles == [i \in DOMAIN insights |-> insights[i].title]

OverviewTitles == {"POSITIVE MOMENTUM", "CAUTION ADVISED", "MARKET NEUTRALITY"}
TrendTitles == {"UPWARD TREND", "DOWNWARD PRESSURE", "STABLE OUTLOOK"}
VolumeTitles == {"HIGH NEWS VOLUME", "ACTIVE NEWS CYCLE", "LIGHT NEWS DAY"}

\* C11: generate_insights is deterministic in (region_id, current_score,
\* headline_count, trend, keywords) and does no I/O: a call that repeats an
\* earlier call's arguments and sees the same trend and keywords returns the
\* same card list, a call queries nothing, and no list has more than 5 cards.
C11_DeterministicNoIO ==
    pc = "called" =>
        /\ (/\ earlier_call.request = request
            /\ earlier_call.trend_info = trend_info
            /\ earlier_call.keywords = top_keywords)
               => insights = earlier_call.insights
        /\ db_queries = <<>>
        /\ Len(insights) <= 5
        /\ Len(earlier_call.insights) <= 5

\* C12: the first card is always the overview: POSITIVE MOMENTUM iff
\* current_score > 60, CAUTION ADVISED iff current_score < 40, MARKET
\* NEUTRALITY otherwise; exactly 60 and exactly 40 give the neutral card.
C12_OverviewCard ==
    pc = "called" =>
        /\ Len(insights) >= 1
        /\ insights[1].title \in OverviewTitles
        /\ insights[1].title = "POSITIVE MOMENTUM"
              <=> request.current_score > 600
        /\ insights[1].title = "CAUTION ADVISED"
              <=> request.current_score < 400
        /\ insights[1].title = "MARKET NEUTRALITY"
              <=> (request.current_score >= 400
                      /\ request.current_score <= 600)
        /\ \A i \in DOMAIN insights :
              i > 1 => insights[i].title \notin OverviewTitles

C12_Witness ==
    /\ pc = "called"
    /\ request.current_score = 600
    /\ insights[1].title = "MARKET NEUTRALITY"
    /\ insights[1].text.args = <<<<"6", "0", ".", "0">>>>

\* C13: exactly one volume card is emitted: HIGH NEWS VOLUME iff
\* headline_count > 50, ACTIVE NEWS CYCLE iff 20 < headline_count <= 50,
\* LIGHT NEWS DAY iff headline_count <= 20.
C13_VolumeCard ==
    pc = "called" =>
        LET volume == {i \in DOMAIN insights :
                          insights[i].title \in VolumeTitles}
        IN  /\ Cardinality(volume) = 1
            /\ \A i \in volume :
                  /\ insights[i].title = "HIGH NEWS VOLUME"
                        <=> request.headline_count > 50
                  /\ insights[i].title = "ACTIVE NEWS CYCLE"
                        <=> (request.headline_count > 20
                                /\ request.headline_count <= 50)
                  /\ insights[i].title = "LIGHT NEWS DAY"
                        <=> request.headline_count <= 20
                  /\ request.headline_count = 75
                        => insights[i].title = "HIGH NEWS VOLUME"
                  /\ request.headline_count = 20
                        => insights[i].title = "LIGHT NEWS DAY"
                  /\ request.headline_count = 50
                        => insights[i].title = "ACTIVE NEWS CYCLE"

C13_Witness ==
    /\ pc = "called"
    /\ request.headline_count = 20
    /\ \E i \in DOMAIN insights :
          /\ insights[i].title = "LIGHT NEWS DAY"
          /\ insights[i].text.args = <<<<"2", "0">>>>

\* C14: the list is, in this order: overview; a trend card iff the trend
\* read has data_points > 1; volume; TOP TOPIC iff the keywords read are not
\* empty; REGIONAL CONTEXT, with the region's own text for a region of
\* REGIONS and the generic text for any other region_id.  Nothing is
\* reordered or cut off.
C14_CardOrder ==
    pc = "called" =>
        LET has_trend == trend_info.data_points > 1
            has_keyword == top_keywords # <<>>
            trend_at == IF has_trend THEN 2 ELSE 1
            volume_at == trend_at + 1
            keyword_at == IF has_keyword THEN volume_at + 1 ELSE volume_at
            last == keyword_at + 1
        IN  /\ Len(insights) = last
            /\ insights[1].title \in OverviewTitles
            /\ has_trend =>
                  insights[2].title =
                      (IF trend_info.trend = "rising" THEN "UPWARD TREND"
                       ELSE IF trend_info.trend = "falling"
                            THEN "DOWNWARD PRESSURE"
                       ELSE "STABLE OUTLOOK")
            /\ insights[volume_at].title \in VolumeTitles
            /\ has_keyword => insights[keyword_at].title = "TOP TOPIC"
            /\ insights[last].title = "REGIONAL CONTEXT"
            /\ \A i \in DOMAIN insights :
                  /\ insights[i].title \in TrendTitles
                        => (has_trend /\ i = 2)
                  /\ insights[i].title = "TOP TOPIC"
                        => (has_keyword /\ i = keyword_at)
            /\ request.region_id = "egypt" =>
                  insights[last].text =
                      [template |-> "Currency stability and Suez Canal revenues crucial for Egyptian economic health.",
                       args |-> <<>>]
            /\ request.region_id \notin REGIONS =>
                  insights[last].text =
                      [template |-> "Monitoring key economic indicators for {0}.",
                       args |-> <<<<"m", "a", "r", "s">>>>]

C14_Witness ==
    /\ pc = "called"
    /\ CardTitles = <<"CAUTION ADVISED", "UPWARD TREND", "ACTIVE NEWS CYCLE",
                      "TOP TOPIC", "REGIONAL CONTEXT">>
    /\ trend_info.data_points = 2
    /\ Len(top_keywords) = 1

-----------------------------------------------------------------------------
(* The region cache under requests (SpecCache)                             *)

\* the key is in the cache and alive
Hit(c, region_id, t) == cache_contains(c, cache_key(region_id), t)

\* thread t leaves its put step
Puts(t, region_id) ==
    /\ thread[t].pc = "put"
    /\ thread[t].region_id = region_id
    /\ thread'[t].pc # "put"

InCacheOperation(t) == thread[t].pc \in {"read", "clearing"}

\* C17: no two threads are inside an operation on the region cache at the
\* same time, and so a lookup that has found its key reads the entry, unless
\* the entry has expired in between.
C17_MutuallyExclusive ==
    /\ \A t, u \in Threads :
          t # u => ~(InCacheOperation(t) /\ InCacheOperation(u))
    /\ \A t \in Threads :
          (thread[t].ret = [ok |-> FALSE, error |-> "KeyError"])
             => LET key == cache_key(thread[t].region_id)
                IN  key \in DOMAIN put_log
                       => put_log[key].at + CACHE_TTL <= now

-----------------------------------------------------------------------------
(* The noise filter (SpecNoise)                                            *)

\* text is empty or consists of white space only
IsBlank(text) == \A i \in DOMAIN text : IsSpace(text[i])

\* marker stands in text after the first i characters, in any letter case,
\* with no letter, digit or underscore directly before or after it
WholeWordAt(text, i, marker) ==
    /\ i + Len(marker) <= Len(text)
    /\ lower(SubSeq(text, i + 1, i + Len(marker))) = marker
    /\ i = 0 \/ ~IsWordChar(text[i])
    /\ i + Len(marker) = Len(text) \/ ~IsWordChar(text[i + Len(marker) + 1])

ContainsMarker(text) ==
    \E n \in DOMAIN NOISE_KEYWORDS : \E i \in 0..Len(text) :
        WholeWordAt(text, i, NOISE_KEYWORDS[n])

\* C18: is_noise(text) is true exactly when text is empty or white space
\* only, or contains a noise marker as a whole word in any letter case; and
\* the call changes nothing but its answer.
C18_IsNoise ==
    pc = "judged"
       => /\ response = (IsBlank(request) \/ ContainsMarker(request))
          /\ cache = <<>> /\ sentiment_history = <<>>
          /\ headlines_history = <<>>

-----------------------------------------------------------------------------
(* Noise in the collection paths (SpecCollect)                             *)

\* the headlines of raw_headlines that is_noise rejects
NoiseIn(raw_headlines) ==
    {i \in DOMAIN raw_headlines : is_noise(raw_headlines[i].title)}

\* the aggregates a collection has produced, each with the headlines it was
\* fetched from: what process_region returns, and what the tasks compute for
\* each region with headlines (their counts are the PolarityCounts of
\* aggregate_sentiment, filtered_count included)
ProducedAggregates ==
    IF request.path = "process_region"
    THEN IF response.ok
         THEN {[fetched   |-> feed[request.regions[1]],
                headline_count |-> response.value.headline_count,
                counts    |-> [bull_count     |-> response.value.bull_count,
                               bear_count     |-> response.value.bear_count,
                               neutral_count  |-> response.value.neutral_count,
                               filtered_count |-> response.value.filtered_count]]}
         ELSE {}
    ELSE {[fetched   |-> feed[response[i].region],
           headline_count |-> response[i].headline_count,
           counts    |-> response[i].polarity_counts] :
             i \in {j \in DOMAIN response : response[j].success}}

\* C19: after a collection by any path, no stored headline is one that
\* is_noise rejects, and every aggregate produced counts the rejected
\* headlines in filtered_count and only the others in headline_count and in
\* the polarity buckets.
C19_NoiseExcluded ==
    pc = "collected"
       => /\ \A i \in DOMAIN headlines_history :
                ~is_noise(headlines_history[i].title)
          /\ \A p \in ProducedAggregates :
                /\ p.counts.filtered_count = Cardinality(NoiseIn(p.fetched))
                /\ p.counts.filtered_count + p.headline_count
                      = Len(p.fetched)
                /\ p.counts.bull_count + p.counts.bear_count
                      + p.counts.neutral_count = p.headline_count

-----------------------------------------------------------------------------
(* Snapshot saves from two threads (SpecCache)                             *)

\* the store holds a snapshot of region_id recorded at t
Recorded(table, region_id, t) ==
    \E i \in DOMAIN table :
        table[i].region_id = region_id /\ table[i].recorded_at = t

\* C20: whatever the order in which the event loop and the collection thread
\* save, no two snapshot rows have the same region_id and recorded_at; and a
\* save for a pair the store already holds leaves the store as it is and
\* returns, process_region going on to save its headlines.
C20_UniqueSnapshots ==
    /\ [](\A i, j \in DOMAIN sentiment_history :
             (/\ sentiment_history[i].region_id
                    = sentiment_history[j].region_id
              /\ sentiment_history[i].recorded_at
                    = sentiment_history[j].recorded_at) => i = j)
    /\ [][\A t \in Threads :
             (/\ thread[t].pc = "save_snapshot"
              /\ thread'[t].pc # "save_snapshot"
              /\ Recorded(sentiment_history, thread[t].region_id, now))
                => /\ sentiment_history' = sentiment_history
                   /\ thread'[t].pc = "save_headlines"
         ]_vars

\* both threads have saved the snapshot of the same region in the same
\* second, and the store holds one row
C20_Witness ==
    /\ thread["loop"].pc = "save_headlines"
    /\ thread["worker"].pc = "save_headlines"
    /\ thread["loop"].region_id = thread["worker"].region_id
    /\ now = 0
    /\ Len(sentiment_history) = 1

-----------------------------------------------------------------------------
(* The snapshot rows of a collection (SpecCollect)                         *)

\* C21: after a collection by any path, every stored snapshot carries
\* bucket counts that add up to its headline_count and that are the counts
\* of the aggregate produced for its region.
C21_SnapshotCounts ==
    pc = "collected"
       => \A i \in DOMAIN sentiment_history :
             LET row == sentiment_history[i]
             IN  /\ row.bull_count + row.bear_count + row.neutral_count
                       = row.headline_count
                 /\ \A p \in ProducedAggregates :
                       p.fetched = feed[row.region_id]
                          => /\ row.bull_count = p.counts.bull_count
                             /\ row.bear_count = p.counts.bear_count
                             /\ row.neutral_count = p.counts.neutral_count

-----------------------------------------------------------------------------
(* Unknown regions (SpecEndpoints)                                         *)

\* the answer is the caller error of the call: ValueError from
\* process_region, 404 from an endpoint
CallerError(call, answer) ==
    IF call = "process_region"
    THEN answer = [ok |-> FALSE, error |-> "ValueError"]
    ELSE answer.status = 404

\* C22: a request for a region id outside REGIONS is answered with the
\* caller error, writes nothing to the store and leaves the cache as it was,
\* with no entry for that id; a request for a region of REGIONS is never
\* answered with the caller error, whether the region has data or not.
C22_UnknownRegion ==
    [][IF request'.region_id \in REGIONS
       THEN ~CallerError(request'.call, response')
       ELSE /\ CallerError(request'.call, response')
            /\ UNCHANGED <<cache, sentiment_history, headlines_history>>
            /\ cache_key(request'.region_id) \notin DOMAIN cache'
      ]_vars

\* after a request that stored and cached data, a request for an unknown
\* region has been answered with 404
C22_Witness ==
    /\ pc = "done"
    /\ request.region_id \notin REGIONS
    /\ request.call # "process_region"
    /\ response.status = 404
    /\ sentiment_history # <<>>
    /\ cache # <<>>

-----------------------------------------------------------------------------
(* Partial failure in a bulk operation (SpecBulk)                          *)

\* the regions of order that are in S, in the order of order
RECURSIVE Among(_, _)
Among(order, S) ==
    IF order = <<>> THEN <<>>
    ELSE IF Head(order) \in S
    THEN <<Head(order)>> \o Among(Tail(order), S)
    ELSE Among(Tail(order), S)

\* C23: a bulk operation ends having attempted each of the seven regions
\* once, in the order of REGIONS, whichever regions fail; the failure of
\* each failing region is recorded, and every region that does not fail has
\* its result in the outcome.
C23_BulkGoesOn ==
    pc = "bulk_done"
       => /\ response.attempted = RegionOrder
          /\ response.errors = Among(RegionOrder, request.failing)
          /\ \A r \in REGIONS \ request.failing :
                \/ \E i \in DOMAIN response.data :
                      /\ "region_id" \in DOMAIN response.data[i]
                      /\ response.data[i].region_id = r
                \/ \E i \in DOMAIN response.data :
                      /\ "region" \in DOMAIN response.data[i]
                      /\ response.data[i].region = r

\* the first region and one in the middle have failed, the others have
\* stored their snapshots
C23_Witness ==
    /\ pc = "bulk_done"
    /\ request.failing = {"global", "africa"}
    /\ response.errors = <<"global", "africa">>
    /\ Len(sentiment_history) = 5

-----------------------------------------------------------------------------
(* Failures of the classifier (SpecCollect)                                *)

\* the classifier is called for raw and fails: the model is loaded, the
\* title is one analyze passes to it, and tokenizing or inference raises
ClassifierFails(raw) ==
    /\ model_loaded
    /\ strip(raw.title) # <<>>
    /\ raw.verdict.pred = "error"

\* the regions whose collection has produced an aggregate
ProducedRegions ==
    IF request.path = "process_region"
    THEN IF response.ok THEN {request.regions[1]} ELSE {}
    ELSE {response[i].region : i \in {j \in DOMAIN response :
                                          response[j].success}}

\* C24: when the classifier fails on a fetched headline that the collection
\* passes to it, the collection of that region reports the failure: it
\* produces no aggregate, and no headline row with a neutral 0.0 score is
\* stored for the headline.
C24_FailurePropagated ==
    pc = "collected"
       => \A k \in DOMAIN request.regions :
             LET r == request.regions[k]
             IN  \A i \in DOMAIN feed[r] :
                    (/\ ClassifierFails(feed[r][i])
                     /\ request.path = "process_region"
                           => ~is_noise(feed[r][i].title))
                       => /\ r \notin ProducedRegions
                          /\ \A h \in DOMAIN headlines_history :
                                ~(/\ headlines_history[h].region_id = r
                                  /\ headlines_history[h].title
                                        = feed[r][i].title
                                  /\ headlines_history[h].sentiment_score = 0)

-----------------------------------------------------------------------------
(* An empty fetch (SpecCollect)                                            *)

\* the collection reports the neutral aggregate of zero headlines for the
\* k-th region of the request, as a success
NeutralSuccess(k) ==
    IF request.path = "process_region"
    THEN /\ response.ok
         /\ response.value.sentiment_score = 500
         /\ response.value.sentiment_label = NEUTRAL
         /\ response.value.headline_count = 0
         /\ response.value.bull_count = 0
         /\ response.value.bear_count = 0
         /\ response.value.neutral_count = 0
    ELSE /\ response[k].success
         /\ response[k].score = 500
         /\ response[k].label = NEUTRAL
         /\ response[k].headline_count = 0
         /\ response[k].polarity_counts.bull_count = 0
         /\ response[k].polarity_counts.bear_count = 0
         /\ response[k].polarity_counts.neutral_count = 0

\* C25: in every collection path, a region whose source returned the empty
\* sequence is reported as a success with the neutral aggregate (score 50.0,
\* label neutral, all counts zero), and no snapshot of it is written.
C25_EmptyIsNeutralSuccess ==
    pc = "collected"
       => \A k \in DOMAIN request.regions :
             feed[request.regions[k]] = <<>>
                => /\ NeutralSuccess(k)
                   /\ \A i \in DOMAIN sentiment_history :
                         sentiment_history[i].region_id # request.regions[k]

-----------------------------------------------------------------------------
(* Saving what a cached aggregate reports (SpecEndpoints)                   *)

\* C27: whenever process_region(region_id, save_to_db=True) returns an
\* aggregate with at least one headline, a snapshot of the same region and
\* score has been written, also when an earlier insights request computed
\* and cached the aggregate without saving it.
C27_ReturnedIsSaved ==
    (/\ pc \in {"second", "done"}
     /\ request.call = "process_region"
     /\ request.save_to_db
     /\ response.ok
     /\ response.value.headline_count >= 1)
       => \E i \in DOMAIN sentiment_history :
             /\ sentiment_history[i].region_id = request.region_id
             /\ sentiment_history[i].sentiment_score
                   = response.value.sentiment_score

-----------------------------------------------------------------------------
(* A refresh and the collections in flight (SpecCache)                     *)

\* C26: once cache.clear() of /api/refresh has returned, no lookup returns
\* from the cache an aggregate whose headlines were fetched before that
\* refresh was accepted: a process_region in flight during the refresh does
\* not put its aggregate into the cache afterwards.
C26_NoPreRefreshHit ==
    [][\A t \in Threads :
          (thread[t].pc = "read" /\ thread'[t].from_cache)
             => ~put_log[cache_key(thread[t].region_id)].refreshed
      ]_vars

-----------------------------------------------------------------------------
(* The two writes of a cycle (SpecCache)                                   *)

\* the headline rows stored for region_id
HeadlineRows(region_id) ==
    {i \in DOMAIN headlines_history :
        headlines_history[i].region_id = region_id}

\* the headlines that the snapshots of table for region_id count
RECURSIVE SnapshotHeadlines(_, _)
SnapshotHeadlines(table, region_id) ==
    IF table = <<>> THEN 0
    ELSE (IF Head(table).region_id = region_id
          THEN Head(table).headline_count ELSE 0)
         + SnapshotHeadlines(Tail(table), region_id)

\* C28: when no process_region is between its two writes, the store holds
\* the headline rows of exactly the cycles whose snapshot row it holds: for
\* every region the headline rows stored are as many as the snapshots
\* stored for it count, also when the insert of a snapshot was dropped as a
\* duplicate.
C28_AllOrNothing ==
    (\A t \in Threads : thread[t].pc # "save_headlines")
       => \A r \in REGIONS :
             Cardinality(HeadlineRows(r))
                = SnapshotHeadlines(sentiment_history, r)

-----------------------------------------------------------------------------
(* The change and the label of one answer (SpecTrend)                      *)

\* C30: the label and the change that get_sentiment_change returns agree:
\* the trend is rising iff the returned change, rounded to one decimal, is
\* above 2, falling iff it is below -2, and stable otherwise.
C30_LabelAgreesWithChange ==
    pc = "queried"
       => /\ (trend_info.trend = "rising" <=> trend_info.change > 20)
          /\ (trend_info.trend = "falling" <=> trend_info.change < -20)
          /\ (trend_info.trend = "stable"
                 <=> (trend_info.change >= -20 /\ trend_info.change <= 20))

-----------------------------------------------------------------------------
(* A trend response and the history it reports (SpecTrendRace)             *)

\* C29: every trend response is consistent in itself while snapshots are
\* being saved: data_points is the length of data, and trend and change
\* are those of data, that is, stable and 0 for fewer than two points, and
\* otherwise decided by last.score - first.score of data.
C29_TrendResponseConsistent ==
    (thread["loop"].pc = "idle" /\ handled > 0)
       => LET data == response.data
          IN  /\ response.data_points = Len(data)
              /\ IF Len(data) < 2
                 THEN response.change = 0 /\ response.trend = "stable"
                 ELSE LET delta == score_sub(data[Len(data)].score,
                                             data[1].score)
                      IN  /\ response.change = round_change(delta)
                          /\ response.trend = trend_direction(delta)

=============================================================================
